---- MODULE Spec2Model ----
(***************************************************************************)
(* Model of the AI Image MCP server (src/src/index.ts,                     *)
(* src/src/storage.ts): the job polling engine, the Local Record Store,    *)
(* the image-reference resolver and the request handlers.                  *)
(*                                                                         *)
(* The specifications share the variables below and one initial state:     *)
(*   SpecPoll    - one waitForJobResult call against a remote job API      *)
(*                 whose answers are chosen by the environment;            *)
(*   SpecWait    - the same call with fewer kinds of answers, under weak   *)
(*                 fairness of its steps;                                  *)
(*   SpecResolve - the Local Record Store plus invocations that run        *)
(*                 resolveImageReference and then ensureImageToken;        *)
(*   SpecRepeat  - the same invocation made twice;                         *)
(*   SpecCaption - invocations that go on to read the image bytes;         *)
(*   SpecStore   - overlapping saveImage calls;                            *)
(*   SpecTools   - tools/call requests for upscale_image, image_to_image   *)
(*                 and generate_image;                                     *)
(*   SpecRead    - resources/read, get_image_by_token and search_images;   *)
(*   SpecImport  - store_image_from_url.                                   *)
(*                                                                         *)
(* JavaScript values of unknown type are tagged records: t is the result   *)
(* of typeof, v the string value (empty when the value is not a string).   *)
(* Optional numbers are tagged the same way with an integer field n.       *)
(***************************************************************************)
EXTENDS Integers, Sequences, FiniteSets, TLC

VARIABLES
    \* ---- waitForJobResult -------------------------------------------
    wpc,          \* position of the call: idle, loop, polling, sleeping, done
    now,          \* Date.now(), in milliseconds
    jobId,        \* the jobId argument
    wopts,        \* the options argument
    deadline,     \* const deadline
    lastStatus,   \* let lastStatus: string | undefined
    log,          \* every getJobResult outcome observed so far, in order
    calls,        \* number of getJobResult calls issued
    sleeps,       \* number of delay() calls started
    warnings,     \* number of console.warn calls of the catch block
    outcome,      \* what the call returned or threw
    \* ---- Local Record Store -----------------------------------------
    metadata,     \* contents of metadata.json: records, newest first
    files,        \* image files: record id -> base64 of the bytes on disk
    nextId,       \* source of fresh record ids (uuidv4)
    \* ---- resolveImageReference / ensureImageToken --------------------
    rpc,          \* position of the invocation: idle, resolved, uploading, done
    input,        \* the ImageReferenceInput of the invocation
    eopts,        \* the options given to ensureImageToken
    resolved,     \* what resolveImageReference returned or threw
    storeReads,   \* metadata.json reads made by the invocation
    fileReads,    \* image file reads made by the invocation
    uploads,      \* uploadImage requests issued by the invocation
    uploadReplies,\* ImageUploadResponse bodies those requests were answered with
    first,        \* what the first of two equal invocations ended with
    result,       \* what the invocation returned or threw
    \* ---- overlapping saveImage calls ---------------------------------
    sv,           \* per caller: position in saveImage, its record, the list it read
    history,      \* the records saveImage returned, in the order of their writes
    overlap,      \* two saveImage calls have been in flight at the same time
    \* ---- one tools/call request ---------------------------------------
    tpc,          \* position of the handler: idle, ensure, submit, wait, ... done
    tool,         \* request.params.name
    params,       \* request.params.arguments
    plan,         \* locals of the handler: parsed arguments, job id, remote result
    events,       \* remote API calls and saveImage calls of the request, in order
    raised,       \* the error thrown inside the handler, if any
    response,     \* what the request handler returned or threw
    before        \* metadata.json when the request arrived

pollVars == <<wpc, now, jobId, wopts, deadline, lastStatus, log, calls,
              sleeps, warnings, outcome>>
storeVars == <<metadata, files, nextId>>
resolveVars == <<rpc, input, eopts, resolved, storeReads, fileReads,
                 uploads, uploadReplies, first, result>>
saveVars == <<sv, history, overlap>>
toolVars == <<tpc, tool, params, plan, events, raised, response, before>>
vars == <<pollVars, storeVars, resolveVars, saveVars, toolVars>>

----------------------------------------------------------------------------
(* Bounds of the model.                                                    *)

MaxPolls == 3
MaxTimeoutSeconds == 2
MaxIntervalSeconds == 2
MaxCallMs == 700
MaxRecords == 2
MaxSaves == 3
MaxClock == 2

----------------------------------------------------------------------------
(* JavaScript values.  A string is a sequence of atoms (chunks of          *)
(* characters that the program never splits); " " is the whitespace atom.  *)

Undefined == [t |-> "undefined", v |-> <<>>]
Str(s) == [t |-> "string", v |-> s]
Lit(a) == Str(<<a>>)
NotAString == [t |-> "number", v |-> <<>>]

NoNumber == [t |-> "undefined", n |-> 0]
Num(k) == [t |-> "number", n |-> k]

\* value ?? fallback, for optional numbers
OrElse(value, fallback) == IF value.t = "undefined" THEN fallback ELSE value.n

\* Math.max(a, b)
MathMax(a, b) == IF a >= b THEN a ELSE b

Min(S) == CHOOSE x \in S : \A y \in S : x <= y
Max(S) == CHOOSE x \in S : \A y \in S : x >= y

\* String.prototype.trim: drops the leading and trailing whitespace atoms
Trim(s) ==
    LET solid == {i \in DOMAIN s : s[i] # " "}
    IN IF solid = {} THEN <<>> ELSE SubSeq(s, Min(solid), Max(solid))

\* toLowerCase of one atom
LowerAtom(a) ==
    CASE a = "Completed" -> "completed"
      [] a = "SUCCEEDED" -> "succeeded"
      [] a = "Failed" -> "failed"
      [] a = "ERROR" -> "error"
      [] a = "Cancelled" -> "cancelled"
      [] a = "Running" -> "running"
      [] a = "Endpoint not found" -> "endpoint not found"
      [] OTHER -> a

\* String.prototype.toLowerCase
ToLowerCase(s) == [i \in DOMAIN s |-> LowerAtom(s[i])]

\* String.prototype.startsWith
StartsWith(s, prefix) == Len(s) >= Len(prefix) /\ SubSeq(s, 1, Len(prefix)) = prefix

\* String.prototype.slice(from), from counted in atoms
Slice(s, from) == SubSeq(s, from + 1, Len(s))

\* A sanitizer that forgets to trim
sanitizeOptionalString_NoTrim(value) ==
    IF value.t # "string"
    THEN Undefined
    ELSE IF Len(value.v) > 0 THEN Str(value.v) ELSE Undefined

sanitizeOptionalString(value) ==
    IF value.t # "string"
    THEN Undefined
    ELSE LET trimmed == Trim(value.v)
         IN IF Len(trimmed) > 0 THEN Str(trimmed) ELSE Undefined

\* JavaScript truthiness of a string | undefined
Truthy(value) == value.t = "string" /\ Len(value.v) > 0

\* new McpError(code, message) and new Error(message)
McpError(code, message) == [code |-> code, message |-> message]
Error(message) == [code |-> "Error", message |-> message]
NoError == [code |-> "none", message |-> <<>>]

\* Record<string, unknown>: an optional object, as a set of <<key, value>>
NoMetadata == [t |-> "undefined", o |-> {}]
Obj(pairs) == [t |-> "object", o |-> pairs]

\* A number as the value of a key of such an object
NumValue(k) == [t |-> "number", v |-> <<ToString(k)>>]

\* object[key], undefined when the key is absent
Get(object, key) ==
    IF \E kv \in object.o : kv[1] = key
    THEN (CHOOSE kv \in object.o : kv[1] = key)[2]
    ELSE Undefined

\* { ...object, [key]: value }
Assign(object, key, value) ==
    Obj({kv \in object.o : kv[1] # key} \cup {<<key, value>>})

\* Numeric arguments as a caller may send them: a number that is not an
\* integer (n + 0.5), '' and a string that Number() turns into NaN
Fraction(k) == [t |-> "fraction", n |-> k]
EmptyText == [t |-> "empty", n |-> 0]
NotNumeric == [t |-> "text", n |-> 0]

ParsedNumber(value) == [ok |-> TRUE, value |-> value, error |-> NoError]
ParseFailed(err) == [ok |-> FALSE, value |-> NoNumber, error |-> err]

\* parseOptionalNumber(value, field, {min, max}); min and max are optional
parseOptionalNumber(value, field, min, max) ==
    IF value.t \in {"undefined", "empty"} THEN ParsedNumber(NoNumber)
    ELSE IF value.t = "text"
    THEN ParseFailed(McpError("InvalidRequest", <<field, " must be a finite number.">>))
    ELSE IF min.t = "number" /\ value.n < min.n
    THEN ParseFailed(McpError("InvalidRequest",
                              <<field, " must be at least ", ToString(min.n), ".">>))
    ELSE IF max.t = "number"
            /\ (value.n > max.n \/ (value.t = "fraction" /\ value.n = max.n))
    THEN ParseFailed(McpError("InvalidRequest",
                              <<field, " must not exceed ", ToString(max.n), ".">>))
    ELSE ParsedNumber(value)

\* A parser that accepts every integer above the minimum
parseOptionalInteger_NoMax(value, field, min, max) ==
    LET numeric == parseOptionalNumber(value, field, min, NoNumber) IN
    IF ~numeric.ok \/ numeric.value.t = "undefined" THEN numeric
    ELSE IF numeric.value.t = "fraction"
    THEN ParseFailed(McpError("InvalidRequest", <<field, " must be an integer.">>))
    ELSE numeric

\* parseOptionalInteger(value, field, {min, max})
parseOptionalInteger(value, field, min, max) ==
    LET numeric == parseOptionalNumber(value, field, min, max) IN
    IF ~numeric.ok \/ numeric.value.t = "undefined" THEN numeric
    ELSE IF numeric.value.t = "fraction"
    THEN ParseFailed(McpError("InvalidRequest", <<field, " must be an integer.">>))
    ELSE numeric

\* Boolean arguments: true, false, or text
Bool(b) == [t |-> "boolean", v |-> <<b>>]

\* parseOptionalBoolean(value, field): "undefined", "true" or "false"
parseOptionalBoolean(value, field) ==
    LET normalized == IF value.t = "string" THEN ToLowerCase(Trim(value.v)) ELSE <<>> IN
    IF value.t = "undefined" \/ (value.t = "string" /\ value.v = <<>>)
    THEN [ok |-> TRUE, value |-> "undefined", error |-> NoError]
    ELSE IF value.t = "boolean"
    THEN [ok |-> TRUE, value |-> value.v[1], error |-> NoError]
    ELSE IF normalized = <<"true">> \/ normalized = <<"false">>
    THEN [ok |-> TRUE, value |-> normalized[1], error |-> NoError]
    ELSE [ok |-> FALSE, value |-> "undefined",
          error |-> McpError("InvalidRequest", <<field, " must be a boolean.">>)]

----------------------------------------------------------------------------
(* The remote job API as seen through AiImageApiClient.                    *)

JobIds == {"j1"}

\* JobResultResponse bodies the remote may answer with
Resp(status, token, err) ==
    [status |-> status, image_token |-> token, error |-> err,
     image_base64 |-> Undefined, metadata |-> NoMetadata]

\* A response that carries the image and its metadata as well
JobResult(status, token, base64, meta) ==
    [Resp(status, token, Undefined) EXCEPT !.image_base64 = base64, !.metadata = meta]

NoResponse == Resp(Undefined, Undefined, Undefined)

JobResponses ==
    { Resp(Lit("queued"), Undefined, Undefined),
      Resp(Lit("Running"), Undefined, Undefined),
      Resp(Lit("succeeded"), Lit("tok-up"), Undefined),
      Resp(Lit("Completed"), Lit("tok-up"), Undefined),
      Resp(Lit("Failed"), Undefined, Lit("boom")),
      Resp(Lit("error"), Undefined, Undefined),
      Resp(Lit("cancelled"), Undefined, Lit("by user")),
      Resp(NotAString, Undefined, Undefined) }

\* Failures of an HTTP request as axios reports them: the HTTP status of
\* the response (0 when there was none), the axios error code, the detail
\* field of the response body and the message of the axios error
Failure(http, code, detail, message) ==
    [http |-> http, code |-> code, detail |-> detail, message |-> message]

NoFailure == Failure(0, "", Undefined, "")

HttpFailures ==
    { Failure(404, "ERR_BAD_REQUEST", Undefined, "Request failed with status code 404"),
      Failure(400, "ERR_BAD_REQUEST", Lit("bad job id"), "Request failed with status code 400"),
      Failure(0, "ECONNREFUSED", Undefined, "connect ECONNREFUSED") }

\* AiImageApiClient.handleError, for axios errors
handleError(failure, message) ==
    IF failure.http = 404
    THEN Error(message \o <<": ", "Endpoint not found", " - Modal.com function not found">>)
    ELSE IF failure.http = 500
    THEN Error(message \o <<": ", "Server error - ">> \o
               (IF Truthy(failure.detail) THEN failure.detail.v
                ELSE <<"An internal error occurred in Modal.com">>))
    ELSE IF failure.http = 400
    THEN Error(message \o <<": ", "Bad request - ">> \o
               (IF Truthy(failure.detail) THEN failure.detail.v
                ELSE <<"Request parameters are invalid">>))
    ELSE IF failure.http = 429
    THEN Error(message \o <<": ", "Rate limit exceeded - Rate limit reached. Please wait before retrying.">>)
    ELSE IF failure.code = "ECONNABORTED"
    THEN Error(message \o <<": ", "Request timeout - The request timed out (image generation can take several minutes).">>)
    ELSE IF failure.code = "ENOTFOUND" \/ failure.code = "ECONNREFUSED"
    THEN Error(message \o <<": ", "Service unavailable - Unable to reach the Modal.com service">>)
    ELSE Error(message \o <<": ", failure.message>>)

\* The Error getJobResult throws when its request fails
getJobResultError(id, failure) ==
    handleError(failure, <<"Failed to fetch job result for ", id>>)

\* The Error uploadImage throws when its request fails
uploadImageError(failure) == handleError(failure, <<"Failed to upload image">>)

\* Lower-cased atoms in which /404|not found|not ready/ finds a match
NotReadyAtoms ==
    { "endpoint not found", " - modal.com function not found",
      "request failed with status code 404", "job result not ready" }

\* /404|not found|not ready/i.test(message)
MatchesNotReady(message) ==
    \E i \in DOMAIN message : LowerAtom(message[i]) \in NotReadyAtoms

\* new McpError(InternalError, `Job ${jobId} failed: ${result.error ?? 'Unknown error'}`)
JobFailedError(id, resp) ==
    McpError("InternalError",
             <<"Job ", id, " failed: ">> \o
             (IF resp.error.t = "undefined" THEN <<"Unknown error">> ELSE resp.error.v))

\* new McpError(InternalError, `Job ${jobId} did not complete within
\*   ${options.timeoutSeconds ?? 300} seconds (last status: ${lastStatus ?? 'unknown'}).`)
TimeoutError(id, options, last) ==
    McpError("InternalError",
             <<"Job ", id, " did not complete within ",
               ToString(OrElse(options.timeoutSeconds, 300)),
               " seconds (last status: ">> \o
             (IF last.t = "undefined" THEN <<"unknown">> ELSE last.v) \o
             <<").">>)

----------------------------------------------------------------------------
(* waitForJobResult                                                        *)

\* A loop that recognises only 'completed' as success
IsSuccessStatus_OnlyCompleted(status) == status = <<"completed">>

IsSuccessStatus(status) == status = <<"succeeded">> \/ status = <<"completed">>

IsFailureStatus(status) ==
    status = <<"failed">> \/ status = <<"error">> \/ status = <<"cancelled">>

\* const status = typeof result.status === 'string' ? result.status.toLowerCase() : ''
StatusOf(resp) == IF resp.status.t = "string" THEN ToLowerCase(resp.status.v) ELSE <<>>

\* A catch block that rethrows errors that do not look like "not ready"
PollCatch_RethrowLoud(error) ==
    [rethrow |-> ~MatchesNotReady(error.message), warn |-> ~MatchesNotReady(error.message)]

\* The catch block of the polling loop: it logs unless the message looks
\* like "not ready", and never rethrows.
PollCatch(error) ==
    [rethrow |-> FALSE, warn |-> ~MatchesNotReady(error.message)]

\* const includeBase64 = options.includeBase64 ?? false
IncludeBase64(options) == IF options.includeBase64 = "undefined" THEN "false" ELSE options.includeBase64

\* One observed getJobResult call: its arguments and how it ended
LogEntry(kind, resp, failure) ==
    [kind |-> kind, jobId |-> jobId, include_base64 |-> IncludeBase64(wopts),
     resp |-> resp, failure |-> failure]

PollIntervalMs(options) == MathMax(1, OrElse(options.pollIntervalSeconds, 5)) * 1000

TimeoutMs(options) == MathMax(1, OrElse(options.timeoutSeconds, 300)) * 1000

NoOutcome == [kind |-> "none", result |-> NoResponse, error |-> NoError]

WaitOptions ==
    [includeBase64 : {"undefined", "true"},
     pollIntervalSeconds : {NoNumber} \cup {Num(k) : k \in 1..MaxIntervalSeconds},
     timeoutSeconds : {NoNumber} \cup {Num(k) : k \in 1..MaxTimeoutSeconds}]

\* Entry of waitForJobResult up to the first evaluation of the loop condition
WaitStart(id, options) ==
    /\ wpc = "idle"
    /\ jobId' = id
    /\ wopts' = options
    /\ deadline' = now + TimeoutMs(options)
    /\ lastStatus' = Undefined
    /\ wpc' = "loop"
    /\ UNCHANGED <<now, log, calls, sleeps, warnings, outcome>>

\* A loop that calls getJobResult without looking at the clock
PollIssue_NoDeadlineCheck ==
    /\ wpc = "loop"
    /\ calls < MaxPolls
    /\ calls' = calls + 1
    /\ wpc' = "polling"
    /\ UNCHANGED <<now, jobId, wopts, deadline, lastStatus, log, sleeps, warnings, outcome>>

\* while (Date.now() < deadline): the condition holds, getJobResult is called
PollIssue ==
    /\ wpc = "loop"
    /\ now < deadline
    /\ calls < MaxPolls
    /\ calls' = calls + 1
    /\ wpc' = "polling"
    /\ UNCHANGED <<now, jobId, wopts, deadline, lastStatus, log, sleeps, warnings, outcome>>

\* getJobResult resolves with a response after d milliseconds
PollReturn(resp, d) ==
    /\ wpc = "polling"
    /\ now' = now + d
    /\ log' = Append(log, LogEntry("response", resp, NoFailure))
    /\ LET status == StatusOf(resp) IN
         IF IsSuccessStatus(status)
         THEN /\ wpc' = "done"
              /\ outcome' = [kind |-> "return", result |-> resp, error |-> NoError]
              /\ UNCHANGED <<lastStatus, sleeps, warnings>>
         ELSE IF IsFailureStatus(status)
         THEN \* the McpError is thrown inside the try block and lands in its catch
              LET caught == PollCatch(JobFailedError(jobId, resp)) IN
              IF caught.rethrow
              THEN /\ wpc' = "done"
                   /\ outcome' = [kind |-> "throw", result |-> NoResponse,
                                  error |-> JobFailedError(jobId, resp)]
                   /\ UNCHANGED <<lastStatus, sleeps, warnings>>
              ELSE /\ wpc' = "sleeping"
                   /\ sleeps' = sleeps + 1
                   /\ warnings' = warnings + (IF caught.warn THEN 1 ELSE 0)
                   /\ UNCHANGED <<lastStatus, outcome>>
         ELSE /\ lastStatus' = Str(status)
              /\ wpc' = "sleeping"
              /\ sleeps' = sleeps + 1
              /\ UNCHANGED <<warnings, outcome>>
    /\ UNCHANGED <<jobId, wopts, deadline, calls>>

\* getJobResult rejects after d milliseconds
PollThrow(failure, d) ==
    /\ wpc = "polling"
    /\ now' = now + d
    /\ log' = Append(log, LogEntry("error", NoResponse, failure))
    /\ LET caught == PollCatch(getJobResultError(jobId, failure)) IN
         IF caught.rethrow
         THEN /\ wpc' = "done"
              /\ outcome' = [kind |-> "throw", result |-> NoResponse,
                             error |-> getJobResultError(jobId, failure)]
              /\ UNCHANGED <<sleeps, warnings>>
         ELSE /\ wpc' = "sleeping"
              /\ sleeps' = sleeps + 1
              /\ warnings' = warnings + (IF caught.warn THEN 1 ELSE 0)
              /\ UNCHANGED outcome
    /\ UNCHANGED <<jobId, wopts, deadline, lastStatus, calls>>

\* await this.delay(pollIntervalMs) completes; the timer may fire late
DelayDone(lag) ==
    /\ wpc = "sleeping"
    /\ now' = now + PollIntervalMs(wopts) + lag
    /\ wpc' = "loop"
    /\ UNCHANGED <<jobId, wopts, deadline, lastStatus, log, calls, sleeps, warnings, outcome>>

\* The loop condition fails: the timeout error is thrown
TimeoutThrow ==
    /\ wpc = "loop"
    /\ ~(now < deadline)
    /\ wpc' = "done"
    /\ outcome' = [kind |-> "throw", result |-> NoResponse,
                   error |-> TimeoutError(jobId, wopts, lastStatus)]
    /\ UNCHANGED <<now, jobId, wopts, deadline, lastStatus, log, calls, sleeps, warnings>>

CallDurations == {0, MaxCallMs}

TimerLags == {0, 1}

NextPoll ==
    \/ \E id \in JobIds, options \in WaitOptions :
         WaitStart(id, options) /\ UNCHANGED <<storeVars, resolveVars, saveVars, toolVars>>
    \/ PollIssue /\ UNCHANGED <<storeVars, resolveVars, saveVars, toolVars>>
    \/ \E resp \in JobResponses, d \in CallDurations :
         PollReturn(resp, d) /\ UNCHANGED <<storeVars, resolveVars, saveVars, toolVars>>
    \/ \E failure \in HttpFailures, d \in CallDurations :
         PollThrow(failure, d) /\ UNCHANGED <<storeVars, resolveVars, saveVars, toolVars>>
    \/ \E lag \in TimerLags : DelayDone(lag) /\ UNCHANGED <<storeVars, resolveVars, saveVars, toolVars>>
    \/ TimeoutThrow /\ UNCHANGED <<storeVars, resolveVars, saveVars, toolVars>>

\* The answers that matter to the length of the loop: one that ends the
\* call, one that does not, a failure status and a rejected call
WaitResponses ==
    { Resp(Lit("queued"), Undefined, Undefined),
      Resp(Lit("succeeded"), Lit("tok-up"), Undefined),
      Resp(Lit("Failed"), Undefined, Lit("boom")) }

WaitFailures ==
    { Failure(404, "ERR_BAD_REQUEST", Undefined, "Request failed with status code 404") }

NextWait ==
    \/ \E id \in JobIds, options \in WaitOptions :
         WaitStart(id, options) /\ UNCHANGED <<storeVars, resolveVars, saveVars, toolVars>>
    \/ PollIssue /\ UNCHANGED <<storeVars, resolveVars, saveVars, toolVars>>
    \/ \E resp \in WaitResponses, d \in CallDurations :
         PollReturn(resp, d) /\ UNCHANGED <<storeVars, resolveVars, saveVars, toolVars>>
    \/ \E failure \in WaitFailures, d \in CallDurations :
         PollThrow(failure, d) /\ UNCHANGED <<storeVars, resolveVars, saveVars, toolVars>>
    \/ \E lag \in TimerLags : DelayDone(lag) /\ UNCHANGED <<storeVars, resolveVars, saveVars, toolVars>>
    \/ TimeoutThrow /\ UNCHANGED <<storeVars, resolveVars, saveVars, toolVars>>

----------------------------------------------------------------------------
(* Local Record Store (storage.ts).                                        *)

RESOURCE_URI_PREFIX == <<"resource://ai-image-api/image/">>

\* Buffer.from(s, 'base64'): characters outside the alphabet are skipped
DecodeAtom(a) ==
    CASE a = "QUJD" -> <<"ABC">>
      [] a = "REVG" -> <<"DEF">>
      [] OTHER -> <<>>

RECURSIVE Base64Decode(_)
Base64Decode(s) == IF s = <<>> THEN <<>> ELSE DecodeAtom(Head(s)) \o Base64Decode(Tail(s))

EncodeAtom(a) ==
    CASE a = "ABC" -> "QUJD"
      [] a = "DEF" -> "REVG"
      [] OTHER -> "AA=="

\* buffer.toString('base64')
Base64Encode(bytes) == [i \in DOMAIN bytes |-> EncodeAtom(bytes[i])]

\* uuidv4(): a fresh identifier
uuidv4 == <<ToString(nextId)>>

\* getResourceUri
getResourceUri(id) == RESOURCE_URI_PREFIX \o id

\* records.find(...): the first of the matching positions, as an optional
\* (<<>> or <<record>>)
FirstOf(records, hits) == IF hits = {} THEN <<>> ELSE <<records[Min(hits)]>>

\* A lookup that ignores the id and answers with the newest record
getImageRecord_Newest(id) ==
    IF metadata = <<>> THEN <<>> ELSE <<metadata[1]>>

getImageRecord(id) ==
    FirstOf(metadata, {i \in DOMAIN metadata : metadata[i].id = id})

\* A lookup that answers with the oldest record carrying the token
getImageRecordByToken_Oldest(imageToken) ==
    LET hits == {i \in DOMAIN metadata : metadata[i].imageToken = Str(imageToken)}
    IN IF hits = {} THEN <<>> ELSE <<metadata[Max(hits)]>>

getImageRecordByToken(imageToken) ==
    FirstOf(metadata, {i \in DOMAIN metadata : metadata[i].imageToken = Str(imageToken)})

\* readImageBase64: [ok, base64]; not ok when reading the file throws
readImageBase64(record) ==
    IF record.filename \in DOMAIN files
    THEN [ok |-> TRUE, base64 |-> Str(Base64Encode(files[record.filename]))]
    ELSE [ok |-> FALSE, base64 |-> Undefined]

\* JSON.parse(JSON.stringify(value)) of an optional object: a key whose
\* value is undefined is not written
JsonObject(value) == [value EXCEPT !.o = {kv \in @ : kv[2].t # "undefined"}]

\* readMetadata: the parsed contents of metadata.json ([] when absent)
readMetadata == metadata

\* writeMetadata: what metadata.json holds after JSON.stringify(records)
writeMetadata(records) ==
    [i \in DOMAIN records |-> [records[i] EXCEPT !.metadata = JsonObject(@)]]

\* new Date(ms).toISOString(): one atom per instant
IsoString(ms) == <<ToString(ms)>>

\* Date.parse: the instant an ISO string names, NaN for any other text
NaN == -1
DateParse(text) ==
    IF \E ms \in 0..(MaxClock + 2) : text = IsoString(ms)
    THEN CHOOSE ms \in 0..(MaxClock + 2) : text = IsoString(ms)
    ELSE NaN

\* const record: ImageRecord = {...} of saveImage
ImageRecord(id, info) ==
    [id |-> id, filename |-> id \o <<".png">>, prompt |-> info.prompt,
     model |-> info.model, createdAt |-> IsoString(now),
     imageToken |-> info.imageToken,
     metadata |-> info.metadata, downloadUrl |-> info.downloadUrl,
     \* mimeType: info.mimeType ?? 'image/png'
     mimeType |-> IF "mimeType" \in DOMAIN info THEN info.mimeType ELSE <<"image/png">>]

\* What earlier tool invocations pass to saveImage
SaveInfos ==
    [prompt : {<<"a cat">>}, model : {<<"modal-upscale">>},
     imageToken : {Undefined, Lit("tok-a"), Lit(" ")},
     metadata : {NoMetadata}, downloadUrl : {Undefined}]

SaveData == {<<"QUJD">>, <<"!!!!">>}

\* saveImage, run to completion (no overlapping save)
SaveImage(base64Data, info) ==
    /\ rpc = "idle"
    /\ Len(metadata) < MaxRecords
    /\ LET record == ImageRecord(uuidv4, info)
       IN /\ files' = (record.filename :> Base64Decode(base64Data)) @@ files
          /\ metadata' = writeMetadata(<<record>> \o readMetadata)
          /\ nextId' = nextId + 1
    /\ UNCHANGED resolveVars

\* ---- saveImage step by step, for callers that overlap ----------------

Savers == {1, 2}

NotSaving == [pc |-> "idle", record |-> <<>>, records |-> <<>>]

\* Infos of the overlapping saves
StoreInfos ==
    { [prompt |-> <<"a cat">>, model |-> <<"test-model">>, imageToken |-> Lit("tok-a"),
       metadata |-> Obj({<<"test", Lit("true")>>}),
       downloadUrl |-> Lit("https://example.com/image.png")],
      [prompt |-> <<"a dog">>, model |-> <<"modal-upscale">>, imageToken |-> Lit("tok-a"),
       metadata |-> Obj({}), downloadUrl |-> Undefined],
      [prompt |-> <<"a cat">>, model |-> <<"test-model">>, imageToken |-> Lit("tok-b"),
       metadata |-> NoMetadata, downloadUrl |-> Undefined],
      [prompt |-> <<"a dog">>, model |-> <<"test-model">>, imageToken |-> Undefined,
       metadata |-> NoMetadata, downloadUrl |-> Undefined] }

InFlight(p) == sv[p].pc \in {"filed", "read"}

\* saveImage up to `await readMetadata()`: the image file is written and
\* the record is built
SaveBegin(p, base64Data, info) ==
    /\ ~InFlight(p)
    /\ nextId <= MaxSaves
    /\ LET record == ImageRecord(uuidv4, info)
       IN /\ files' = (record.filename :> Base64Decode(base64Data)) @@ files
          /\ sv' = [sv EXCEPT ![p] = [pc |-> "filed", record |-> <<record>>,
                                      records |-> <<>>]]
    /\ nextId' = nextId + 1
    /\ overlap' = (overlap \/ \E q \in Savers \ {p} : InFlight(q))
    /\ UNCHANGED <<metadata, history>>

\* const records = await readMetadata()
SaveReadMetadata(p) ==
    /\ sv[p].pc = "filed"
    /\ sv' = [sv EXCEPT ![p].pc = "read", ![p].records = readMetadata]
    /\ UNCHANGED <<storeVars, history, overlap>>

\* A save that puts its record in front of what the file holds when it writes
SaveWriteMetadata_Merging(p) ==
    /\ sv[p].pc = "read"
    /\ metadata' = writeMetadata(sv[p].record \o readMetadata)
    /\ sv' = [sv EXCEPT ![p].pc = "done"]
    /\ history' = Append(history, sv[p].record[1])
    /\ UNCHANGED <<files, nextId, overlap>>

\* A save that adds its record at the end of the list
SaveWriteMetadata_Push(p) ==
    /\ sv[p].pc = "read"
    /\ metadata' = writeMetadata(sv[p].records \o sv[p].record)
    /\ sv' = [sv EXCEPT ![p].pc = "done"]
    /\ history' = Append(history, sv[p].record[1])
    /\ UNCHANGED <<files, nextId, overlap>>

\* records.unshift(record); await writeMetadata(records); return record
SaveWriteMetadata(p) ==
    /\ sv[p].pc = "read"
    /\ metadata' = writeMetadata(sv[p].record \o sv[p].records)
    /\ sv' = [sv EXCEPT ![p].pc = "done"]
    /\ history' = Append(history, sv[p].record[1])
    /\ UNCHANGED <<files, nextId, overlap>>

NextStore ==
    \/ \E p \in Savers, info \in StoreInfos :
         SaveBegin(p, <<"QUJD">>, info) /\ UNCHANGED <<pollVars, resolveVars, toolVars>>
    \/ \E p \in Savers : SaveReadMetadata(p) /\ UNCHANGED <<pollVars, resolveVars, toolVars>>
    \/ \E p \in Savers : SaveWriteMetadata(p) /\ UNCHANGED <<pollVars, resolveVars, toolVars>>

\* The cache directory is cleaned from outside: an image file disappears
FileLost(filename) ==
    /\ rpc = "idle"
    /\ filename \in DOMAIN files
    /\ files' = [f \in DOMAIN files \ {filename} |-> files[f]]
    /\ UNCHANGED <<metadata, nextId, resolveVars>>

----------------------------------------------------------------------------
(* resolveImageReference and ensureImageToken (index.ts).                  *)

NoReference == [imageToken |-> Undefined, record |-> <<>>, directBase64 |-> Undefined,
                source |-> "none"]

NoResult == [kind |-> "none", imageToken |-> Undefined, record |-> <<>>, error |-> NoError]

NoInput == [resource_uri |-> Undefined, image_token |-> Undefined, image_base64 |-> Undefined]

NoEnsureOptions == [uploadIfNeeded |-> "undefined", uploadSource |-> Undefined]

\* extractResourceId: [ok, id, error]
extractResourceId(uri) ==
    IF ~StartsWith(uri, RESOURCE_URI_PREFIX)
    THEN [ok |-> FALSE, id |-> <<>>,
          error |-> McpError("InvalidRequest", <<"Unsupported resource URI: ">> \o uri)]
    ELSE LET resourceId == Trim(Slice(uri, Len(RESOURCE_URI_PREFIX)))
         IN IF Len(resourceId) = 0
            THEN [ok |-> FALSE, id |-> <<>>,
                  error |-> McpError("InvalidRequest", <<"Resource ID is missing">>)]
            ELSE [ok |-> TRUE, id |-> resourceId, error |-> NoError]

Resolved(ref, reads) == [ok |-> TRUE, reference |-> ref, error |-> NoError, storeReads |-> reads]
Rejected(err, reads) == [ok |-> FALSE, reference |-> NoReference, error |-> err, storeReads |-> reads]

\* A resolver that looks at image_token before resource_uri
resolveImageReference_TokenFirst(in) ==
    LET resourceUri == sanitizeOptionalString(in.resource_uri)
        imageToken == sanitizeOptionalString(in.image_token)
        imageBase64 == sanitizeOptionalString(in.image_base64)
    IN IF Truthy(imageToken)
       THEN Resolved([imageToken |-> imageToken, record |-> getImageRecordByToken(imageToken.v),
                      directBase64 |-> Undefined, source |-> "image_token"], 1)
       ELSE IF Truthy(resourceUri)
       THEN LET ext == extractResourceId(resourceUri.v) IN
            IF ~ext.ok THEN Rejected(ext.error, 0)
            ELSE LET record == getImageRecord(ext.id) IN
                 IF record = <<>>
                 THEN Rejected(McpError("InvalidRequest",
                                        <<"Resource not found: ">> \o resourceUri.v), 1)
                 ELSE Resolved([imageToken |-> sanitizeOptionalString(record[1].imageToken),
                                record |-> record, directBase64 |-> Undefined,
                                source |-> "resource_uri"], 1)
       ELSE IF Truthy(imageBase64)
       THEN Resolved([imageToken |-> Undefined, record |-> <<>>,
                      directBase64 |-> imageBase64, source |-> "image_base64"], 0)
       ELSE Rejected(McpError("InvalidRequest",
                <<"Provide at least one of resource_uri, image_token, or image_base64.">>), 0)

\* resolveImageReference: the reference or the error, and the number of
\* metadata reads it made
resolveImageReference(in) ==
    LET resourceUri == sanitizeOptionalString(in.resource_uri)
        imageToken == sanitizeOptionalString(in.image_token)
        imageBase64 == sanitizeOptionalString(in.image_base64)
    IN IF Truthy(resourceUri)
       THEN LET ext == extractResourceId(resourceUri.v) IN
            IF ~ext.ok THEN Rejected(ext.error, 0)
            ELSE LET record == getImageRecord(ext.id) IN
                 IF record = <<>>
                 THEN Rejected(McpError("InvalidRequest",
                                        <<"Resource not found: ">> \o resourceUri.v), 1)
                 ELSE Resolved([imageToken |-> sanitizeOptionalString(record[1].imageToken),
                                record |-> record, directBase64 |-> Undefined,
                                source |-> "resource_uri"], 1)
       ELSE IF Truthy(imageToken)
       THEN Resolved([imageToken |-> imageToken, record |-> getImageRecordByToken(imageToken.v),
                      directBase64 |-> Undefined, source |-> "image_token"], 1)
       ELSE IF Truthy(imageBase64)
       THEN Resolved([imageToken |-> Undefined, record |-> <<>>,
                      directBase64 |-> imageBase64, source |-> "image_base64"], 0)
       ELSE Rejected(McpError("InvalidRequest",
                <<"Provide at least one of resource_uri, image_token, or image_base64.">>), 0)

NotResolved == [ok |-> FALSE, reference |-> NoReference, error |-> NoError, storeReads |-> 0]

\* No earlier invocation to compare with
NoFirst == [done |-> FALSE, resolved |-> NotResolved, result |-> NoResult]

Returned(token, record) ==
    [kind |-> "return", imageToken |-> token, record |-> record, error |-> NoError]
Thrown(err) ==
    [kind |-> "throw", imageToken |-> Undefined, record |-> <<>>, error |-> err]

\* References a caller may send
ResourceUriInputs ==
    { Undefined, NotAString, Lit(" "),
      Str(getResourceUri(<<"1">>)),
      Str(<<" ">> \o getResourceUri(<<"2">>) \o <<" ">>),
      Str(RESOURCE_URI_PREFIX \o <<" ", "1">>),
      Str(getResourceUri(<<"9">>)),
      Str(RESOURCE_URI_PREFIX),
      Lit("abc") }

ImageTokenInputs ==
    { Undefined, NotAString, Lit(" "), Lit("tok-a"), Str(<<" ", "tok-a", " ">>), Lit("tok-x") }

ImageBase64Inputs == { Undefined, Str(<<>>), Lit("QUJD") }

ReferenceInputs ==
    [resource_uri : ResourceUriInputs, image_token : ImageTokenInputs,
     image_base64 : ImageBase64Inputs]

EnsureOptions ==
    [uploadIfNeeded : {"undefined", "false", "true"}, uploadSource : {Undefined}]

\* ImageUploadResponse bodies the remote may answer with
UploadResponses ==
    { [image_token |-> Lit("tok-up")], [image_token |-> Str(<<>>)], [image_token |-> Undefined] }

\* A resolver that caches a record for a token it did not find
ResolveImageReference_Caching(in, options) ==
    /\ rpc = "idle"
    /\ input' = in
    /\ eopts' = options
    /\ LET r == resolveImageReference(in) IN
         /\ resolved' = r
         /\ storeReads' = storeReads + r.storeReads
         /\ IF r.ok
            THEN /\ rpc' = "resolved"
                 /\ UNCHANGED result
            ELSE /\ rpc' = "done"
                 /\ result' = Thrown(r.error)
         /\ IF r.ok /\ r.reference.source = "image_token" /\ r.reference.record = <<>>
            THEN metadata' = <<ImageRecord(uuidv4,
                                [prompt |-> <<>>, model |-> <<>>,
                                 imageToken |-> r.reference.imageToken,
                                 metadata |-> NoMetadata, downloadUrl |-> Undefined])>>
                             \o metadata
            ELSE UNCHANGED metadata
    /\ UNCHANGED <<fileReads, uploads, uploadReplies, first, files, nextId>>

\* A resolver that reads the image file of a record without a token and
\* rejects the reference when the file gives no bytes
ResolveImageReference_Eager(in, options) ==
    /\ rpc = "idle"
    /\ input' = in
    /\ eopts' = options
    /\ LET r == resolveImageReference(in)
           readsFile == /\ r.ok /\ ~Truthy(r.reference.imageToken)
                        /\ r.reference.record # <<>>
           read == IF readsFile THEN readImageBase64(r.reference.record[1])
                   ELSE [ok |-> TRUE, base64 |-> Lit("-")]
       IN /\ storeReads' = storeReads + r.storeReads
          /\ fileReads' = fileReads + (IF readsFile THEN 1 ELSE 0)
          /\ IF r.ok /\ read.ok /\ Truthy(read.base64)
             THEN /\ resolved' = r
                  /\ rpc' = "resolved"
                  /\ UNCHANGED result
             ELSE /\ resolved' = IF r.ok
                                 THEN Rejected(McpError("InvalidRequest",
                                                        <<"Image binary is unavailable.">>),
                                               r.storeReads)
                                 ELSE r
                  /\ rpc' = "done"
                  /\ result' = Thrown(resolved'.error)
    /\ UNCHANGED <<uploads, uploadReplies, first, storeVars>>

\* A tool invocation starts: resolveImageReference(in) runs to completion
ResolveImageReference(in, options) ==
    /\ rpc = "idle"
    /\ input' = in
    /\ eopts' = options
    /\ LET r == resolveImageReference(in) IN
         /\ resolved' = r
         /\ storeReads' = storeReads + r.storeReads
         /\ IF r.ok
            THEN /\ rpc' = "resolved"
                 /\ UNCHANGED result
            ELSE /\ rpc' = "done"
                 /\ result' = Thrown(r.error)
    /\ UNCHANGED <<fileReads, uploads, uploadReplies, first, storeVars>>

\* ensureImageToken(reference, options) up to its return, its throw or the
\* uploadImage call
EnsureImageToken ==
    /\ rpc = "resolved"
    /\ LET ref == resolved.reference IN
         IF Truthy(ref.imageToken)
         THEN /\ rpc' = "done"
              /\ result' = Returned(ref.imageToken, ref.record)
              /\ UNCHANGED <<fileReads, uploads>>
         ELSE IF eopts.uploadIfNeeded # "true"
         THEN /\ rpc' = "done"
              /\ result' = Thrown(McpError("InvalidRequest",
                                           <<"image_token is required for this operation.">>))
              /\ UNCHANGED <<fileReads, uploads>>
         ELSE LET readsFile == ~Truthy(ref.directBase64) /\ ref.record # <<>>
                  \* readRecordBase64 turns a failed read into undefined
                  read == IF readsFile THEN readImageBase64(ref.record[1])
                          ELSE [ok |-> FALSE, base64 |-> Undefined]
                  base64 == IF readsFile
                            THEN (IF read.ok THEN read.base64 ELSE Undefined)
                            ELSE ref.directBase64
              IN /\ fileReads' = fileReads + (IF readsFile THEN 1 ELSE 0)
                 /\ IF ~Truthy(base64)
                    THEN /\ rpc' = "done"
                         /\ result' = Thrown(McpError("InvalidRequest",
                              <<"Unable to resolve base64 image data. Provide image_base64 explicitly or reference a cached resource.">>))
                         /\ UNCHANGED uploads
                    ELSE /\ rpc' = "uploading"
                         /\ uploads' = Append(uploads,
                              [image_base64 |-> base64.v,
                               source |-> IF eopts.uploadSource.t = "undefined"
                                          THEN <<"mcp-upload">> ELSE eopts.uploadSource.v])
                         /\ UNCHANGED result
    /\ UNCHANGED <<input, eopts, resolved, storeReads, uploadReplies, first, storeVars>>

\* uploadImage resolves: its image_token is returned as it is
\* An ensureImageToken that answers with the token of the reference
UploadReturn_KeepsReferenceToken(resp) ==
    /\ rpc = "uploading"
    /\ rpc' = "done"
    /\ uploadReplies' = Append(uploadReplies, resp)
    /\ result' = Returned(resolved.reference.imageToken, resolved.reference.record)
    /\ UNCHANGED <<input, eopts, resolved, storeReads, fileReads, uploads, first, storeVars>>

UploadReturn(resp) ==
    /\ rpc = "uploading"
    /\ rpc' = "done"
    /\ uploadReplies' = Append(uploadReplies, resp)
    /\ result' = Returned(resp.image_token, resolved.reference.record)
    /\ UNCHANGED <<input, eopts, resolved, storeReads, fileReads, uploads, first, storeVars>>

\* uploadImage rejects: the Error leaves ensureImageToken
UploadThrow(failure) ==
    /\ rpc = "uploading"
    /\ rpc' = "done"
    /\ result' = Thrown(uploadImageError(failure))
    /\ UNCHANGED <<input, eopts, resolved, storeReads, fileReads, uploads, uploadReplies,
                   first, storeVars>>

\* The image fields of the ImageCaptionRequest built by handleCaptionImage
CaptionRequest(token, base64) ==
    [kind |-> "request", imageToken |-> token, record |-> <<>>, error |-> NoError,
     image_base64 |-> base64]

\* handleCaptionImage from the return of resolveImageReference up to the
\* image field of its request: the token of the reference, else the inline
\* bytes, else the bytes of the record's file
CaptionImageReference ==
    /\ rpc = "resolved"
    /\ rpc' = "captioned"
    /\ LET ref == resolved.reference IN
         IF Truthy(ref.imageToken)
         THEN /\ result' = CaptionRequest(ref.imageToken, Undefined)
              /\ UNCHANGED fileReads
         ELSE LET readsFile == ~Truthy(ref.directBase64) /\ ref.record # <<>>
                  read == IF readsFile THEN readImageBase64(ref.record[1])
                          ELSE [ok |-> FALSE, base64 |-> Undefined]
                  base64 == IF readsFile
                            THEN (IF read.ok THEN read.base64 ELSE Undefined)
                            ELSE ref.directBase64
              IN /\ fileReads' = fileReads + (IF readsFile THEN 1 ELSE 0)
                 /\ result' = IF ~Truthy(base64)
                              THEN Thrown(McpError("InvalidRequest",
                                   <<"image_base64 is required when image_token is unavailable.">>))
                              ELSE CaptionRequest(Undefined, base64)
    /\ UNCHANGED <<input, eopts, resolved, storeReads, uploads, uploadReplies, first,
                   storeVars>>

\* The caller repeats the invocation that has just ended, with the same
\* reference and options, before anything else touches the store
ResolveAgain ==
    /\ rpc = "done"
    /\ ~first.done
    /\ first' = [done |-> TRUE, resolved |-> resolved, result |-> result]
    /\ LET r == resolveImageReference(input) IN
         /\ resolved' = r
         /\ storeReads' = storeReads + r.storeReads
         /\ IF r.ok
            THEN /\ rpc' = "resolved"
                 /\ result' = NoResult
            ELSE /\ rpc' = "done"
                 /\ result' = Thrown(r.error)
    /\ UNCHANGED <<input, eopts, fileReads, uploads, uploadReplies, storeVars>>

\* References of the invocations that are repeated
RepeatInputs ==
    [resource_uri : {Undefined, Str(getResourceUri(<<"1">>))},
     image_token : ImageTokenInputs,
     image_base64 : {Undefined, Lit("QUJD")}]

NextResolve ==
    \/ \E data \in SaveData, info \in SaveInfos : SaveImage(data, info) /\ UNCHANGED <<pollVars, saveVars, toolVars>>
    \/ \E f \in DOMAIN files : FileLost(f) /\ UNCHANGED <<pollVars, saveVars, toolVars>>
    \/ \E in \in ReferenceInputs, options \in EnsureOptions :
         ResolveImageReference(in, options) /\ UNCHANGED <<pollVars, saveVars, toolVars>>
    \/ EnsureImageToken /\ UNCHANGED <<pollVars, saveVars, toolVars>>
    \/ \E resp \in UploadResponses : UploadReturn(resp) /\ UNCHANGED <<pollVars, saveVars, toolVars>>
    \/ \E failure \in HttpFailures : UploadThrow(failure) /\ UNCHANGED <<pollVars, saveVars, toolVars>>

----------------------------------------------------------------------------
(* The tools/call request handler and the handlers of upscale_image,       *)
(* image_to_image and generate_image (index.ts).                           *)

NoParams ==
    [resource_uri |-> Undefined, image_token |-> Undefined, image_base64 |-> Undefined,
     prompt |-> Undefined, scale |-> NoNumber, poll_timeout_seconds |-> NoNumber,
     poll_interval_seconds |-> NoNumber, async |-> Undefined, strength |-> NoNumber]

NoPlan ==
    [scale |-> NoNumber, timeoutSeconds |-> NoNumber, intervalSeconds |-> NoNumber,
     asyncMode |-> "false", jobId |-> Undefined, remote |-> NoResponse]

\* The content[1] JSON of a success response
Payload(token, uri, job, scale, original) ==
    [image_token |-> token, resource_uri |-> uri, job_id |-> job, scale |-> scale,
     original_image_token |-> original]

NoPayload == Payload(Undefined, Undefined, Undefined, NoNumber, Undefined)

NoToolResponse == [kind |-> "none", payload |-> NoPayload, error |-> NoError]

\* One call to the remote API or to saveImage
Ev(op, token, scale, job) == [op |-> op, image_token |-> token, scale |-> scale, job_id |-> job]

\* a ?? b
Coalesce(a, b) == IF a.t = "undefined" THEN b ELSE a

\* The ImageReferenceInput part of the arguments
Ref(a) ==
    [resource_uri |-> a.resource_uri, image_token |-> a.image_token,
     image_base64 |-> a.image_base64]

\* A catch block that wraps every error
CallToolCatch_WrapAll(error) ==
    McpError("InternalError", <<"Tool execution failed: ">> \o error.message)

\* catch (error) of the request handler: a McpError is rethrown, an Error is
\* wrapped, anything else becomes 'Unknown error'
CallToolCatch(error) ==
    IF error.code \notin {"Error", "value"} THEN error
    ELSE IF error.code = "Error"
    THEN McpError("InternalError", <<"Tool execution failed: ">> \o error.message)
    ELSE McpError("InternalError", <<"Tool execution failed: ", "Unknown error">>)

\* The handler throws: the request ends with what the catch block throws
Raise(err) ==
    /\ tpc' = "done"
    /\ raised' = err
    /\ response' = [kind |-> "throw", payload |-> NoPayload, error |-> CallToolCatch(err)]

\* The first failure in a sequence of results, NoError if none failed
FirstError(results) ==
    LET failed == {i \in DOMAIN results : ~results[i].ok}
    IN IF failed = {} THEN NoError ELSE results[Min(failed)].error

UpscaleEnsureOptions == [uploadIfNeeded |-> "true", uploadSource |-> Lit("mcp-upscale-upload")]
ImageToImageEnsureOptions ==
    [uploadIfNeeded |-> "true", uploadSource |-> Lit("mcp-image-to-image-upload")]

\* handleUpscaleImage up to the call of ensureImageToken
UpscaleEntry(a) ==
    LET r == resolveImageReference(Ref(a))
        scale == parseOptionalInteger(a.scale, "scale", Num(1), Num(8))
        timeout == parseOptionalInteger(a.poll_timeout_seconds, "poll_timeout_seconds",
                                        Num(1), Num(1800))
        interval == parseOptionalInteger(a.poll_interval_seconds, "poll_interval_seconds",
                                         Num(1), Num(60))
        err == FirstError(<<[ok |-> r.ok, error |-> r.error],
                            [ok |-> scale.ok, error |-> scale.error],
                            [ok |-> timeout.ok, error |-> timeout.error],
                            [ok |-> interval.ok, error |-> interval.error]>>)
    IN /\ ResolveImageReference(Ref(a), UpscaleEnsureOptions)
       /\ IF err # NoError
          THEN Raise(err) /\ UNCHANGED plan
          ELSE /\ tpc' = "ensure"
               /\ plan' = [NoPlan EXCEPT !.scale = scale.value,
                                          !.timeoutSeconds = Num(OrElse(timeout.value, 300)),
                                          !.intervalSeconds = Num(OrElse(interval.value, 5))]
               /\ UNCHANGED <<raised, response>>
       /\ UNCHANGED events

\* handleImageToImage up to the call of ensureImageToken
ImageToImageEntry(a) ==
    LET prompt == sanitizeOptionalString(a.prompt)
        r == resolveImageReference(Ref(a))
        asyncMode == parseOptionalBoolean(a.async, "async")
        timeout == parseOptionalInteger(a.poll_timeout_seconds, "poll_timeout_seconds",
                                        Num(1), Num(1800))
        interval == parseOptionalInteger(a.poll_interval_seconds, "poll_interval_seconds",
                                         Num(1), Num(60))
        err == FirstError(<<[ok |-> r.ok, error |-> r.error],
                            [ok |-> asyncMode.ok, error |-> asyncMode.error],
                            [ok |-> timeout.ok, error |-> timeout.error],
                            [ok |-> interval.ok, error |-> interval.error]>>)
    IN IF ~Truthy(prompt)
       THEN /\ Raise(McpError("InvalidRequest",
                              <<"\"prompt\" is required and must be a non-empty string.">>))
            /\ UNCHANGED <<plan, events, resolveVars, storeVars>>
       ELSE /\ ResolveImageReference(Ref(a), ImageToImageEnsureOptions)
            /\ IF err # NoError
               THEN Raise(err) /\ UNCHANGED plan
               ELSE /\ tpc' = "ensure"
                    /\ plan' = [NoPlan EXCEPT
                                  !.asyncMode = IF asyncMode.value = "true" THEN "true" ELSE "false",
                                  !.timeoutSeconds = Num(OrElse(timeout.value, 600)),
                                  !.intervalSeconds = Num(OrElse(interval.value, 5))]
                    /\ UNCHANGED <<raised, response>>
            /\ UNCHANGED events

\* handleGenerateImage up to the call of generateImage
GenerateEntry(a) ==
    /\ IF a.prompt.t # "string" \/ Trim(a.prompt.v) = <<>>
       THEN /\ Raise(McpError("InvalidRequest",
                              <<"\"prompt\" is required and must be a non-empty string.">>))
            /\ UNCHANGED events
       ELSE /\ tpc' = "generate"
            /\ events' = Append(events, Ev("generateImage", Undefined, NoNumber, Undefined))
            /\ UNCHANGED <<raised, response>>
    /\ UNCHANGED <<plan, resolveVars, storeVars>>

ToolNames == {"upscale_image", "image_to_image", "generate_image", "no_such_tool"}

\* The CallTool request handler: switch (name)
CallTool(name, a) ==
    /\ tpc = "idle"
    /\ tool' = name
    /\ params' = a
    /\ before' = metadata
    /\ IF name = "upscale_image" THEN UpscaleEntry(a)
       ELSE IF name = "image_to_image" THEN ImageToImageEntry(a)
       ELSE IF name = "generate_image" THEN GenerateEntry(a)
       ELSE /\ Raise(McpError("MethodNotFound", <<"Unknown tool: ", name>>))
            /\ UNCHANGED <<plan, events, resolveVars, storeVars>>
    /\ UNCHANGED <<pollVars, saveVars>>

\* await this.ensureImageToken(reference, {...}) up to its return, its
\* throw or its uploadImage call
EnsureStep ==
    /\ tpc = "ensure"
    /\ EnsureImageToken
    /\ events' = IF rpc' = "uploading"
                 THEN Append(events, Ev("uploadImage", Undefined, NoNumber, Undefined))
                 ELSE events
    /\ UNCHANGED <<tpc, tool, params, plan, raised, response, before, pollVars, saveVars>>

\* A handler that does not await the upload before it calls upscaleImage
UpscaleSubmit_BeforeUpload ==
    /\ tpc = "ensure" /\ rpc \in {"uploading", "done"} /\ tool = "upscale_image"
    /\ IF result.kind = "throw"
       THEN Raise(result.error) /\ UNCHANGED events
       ELSE /\ tpc' = "submit"
            /\ events' = Append(events, Ev("upscaleImage", result.imageToken, plan.scale,
                                           Undefined))
            /\ UNCHANGED <<raised, response>>
    /\ UNCHANGED <<tool, params, plan, before, pollVars, storeVars, resolveVars, saveVars>>

\* ensureImageToken has ended; handleUpscaleImage calls upscaleImage(request)
UpscaleSubmit ==
    /\ tpc = "ensure" /\ rpc = "done" /\ tool = "upscale_image"
    /\ IF result.kind = "throw"
       THEN Raise(result.error) /\ UNCHANGED events
       ELSE /\ tpc' = "submit"
            /\ events' = Append(events, Ev("upscaleImage", result.imageToken, plan.scale,
                                           Undefined))
            /\ UNCHANGED <<raised, response>>
    /\ UNCHANGED <<tool, params, plan, before, pollVars, storeVars, resolveVars, saveVars>>

\* ensureImageToken has ended; handleImageToImage reads the arguments of
\* the request (its callers here send strength and leave negative_prompt,
\* model, guidance_scale, steps, width, height and seed unset) and calls
\* createImageToImageJob (async) or imageToImage
ImageToImageSubmit ==
    /\ tpc = "ensure" /\ rpc = "done" /\ tool = "image_to_image"
    /\ IF result.kind = "throw"
       THEN Raise(result.error) /\ UNCHANGED events
       ELSE IF ~parseOptionalNumber(params.strength, "strength", Num(0), Num(1)).ok
       THEN /\ Raise(parseOptionalNumber(params.strength, "strength", Num(0), Num(1)).error)
            /\ UNCHANGED events
       ELSE /\ tpc' = IF plan.asyncMode = "true" THEN "submit" ELSE "transform"
            /\ events' = Append(events,
                    Ev(IF plan.asyncMode = "true" THEN "createImageToImageJob"
                       ELSE "imageToImage", result.imageToken, NoNumber, Undefined))
            /\ UNCHANGED <<raised, response>>
    /\ UNCHANGED <<tool, params, plan, before, pollVars, storeVars, resolveVars, saveVars>>

\* Job creation responses the remote may answer with
SubmitResponses == { [job_id |-> Lit("j1")], [job_id |-> Undefined] }

\* The polling options of handleUpscaleImage
UpscaleWaitOptions ==
    [includeBase64 |-> "true", pollIntervalSeconds |-> plan.intervalSeconds,
     timeoutSeconds |-> plan.timeoutSeconds]

\* upscaleImage resolves: the job id is checked and waitForJobResult entered
UpscaleJobReturn(job) ==
    /\ tpc = "submit" /\ tool = "upscale_image"
    /\ LET id == sanitizeOptionalString(job.job_id) IN
         IF ~Truthy(id)
         THEN /\ Raise(McpError("InternalError", <<"Upscale API did not return a job_id.">>))
              /\ UNCHANGED <<plan, pollVars>>
         ELSE /\ WaitStart(Head(id.v), UpscaleWaitOptions)
              /\ tpc' = "wait"
              /\ plan' = [plan EXCEPT !.jobId = id]
              /\ UNCHANGED <<raised, response>>
    /\ UNCHANGED <<tool, params, events, before, storeVars, resolveVars, saveVars>>

\* createImageToImageJob resolves: the job id is returned to the caller
ImageToImageJobReturn(job) ==
    /\ tpc = "submit" /\ tool = "image_to_image"
    /\ LET id == sanitizeOptionalString(job.job_id) IN
         IF ~Truthy(id)
         THEN Raise(McpError("InternalError",
                             <<"Image-to-image job creation did not return a job_id.">>))
         ELSE /\ tpc' = "done"
              /\ response' = [kind |-> "result", error |-> NoError,
                              payload |-> Payload(Undefined, Undefined, id, NoNumber, Undefined)]
              /\ UNCHANGED raised
    /\ UNCHANGED <<tool, params, plan, events, before, pollVars, storeVars, resolveVars,
                   saveVars>>

\* upscaleImage or createImageToImageJob rejects
SubmitThrow(failure) ==
    /\ tpc = "submit"
    /\ Raise(handleError(failure, IF tool = "upscale_image"
                                  THEN <<"Failed to upscale image">>
                                  ELSE <<"Failed to enqueue image-to-image job">>))
    /\ UNCHANGED <<tool, params, plan, events, before, pollVars, storeVars, resolveVars,
                   saveVars>>

\* A handler that spreads the remote metadata over its own keys
SaveInfo_RemoteWins(remote) ==
    LET metadataRecord == IF remote.metadata.t = "undefined" THEN Obj({}) ELSE remote.metadata
        own == Assign(Assign(Obj({}), "upscaled_from", result.imageToken),
                      "upscale_scale", NumValue(OrElse(plan.scale, 2)))
    IN [prompt |-> <<"[original prompt unavailable]">>,
        model |-> <<"modal-upscale">>,
        imageToken |-> remote.image_token,
        metadata |-> Obj({kv \in own.o : \A rv \in metadataRecord.o : rv[1] # kv[1]}
                         \cup metadataRecord.o),
        downloadUrl |-> Undefined]

\* What the handler passes to saveImage for the remote result it holds
SaveInfo(remote) ==
    LET metadataRecord == IF remote.metadata.t = "undefined" THEN Obj({}) ELSE remote.metadata
    IN IF tool = "upscale_image"
       THEN [prompt |-> IF result.record # <<>> THEN result.record[1].prompt
                        ELSE <<"[original prompt unavailable]">>,
             model |-> <<"modal-upscale">>,
             imageToken |-> remote.image_token,
             metadata |-> Assign(Assign(metadataRecord, "upscaled_from", result.imageToken),
                                 "upscale_scale", NumValue(OrElse(plan.scale, 2))),
             downloadUrl |-> Undefined]
       ELSE IF tool = "image_to_image"
       THEN [prompt |-> sanitizeOptionalString(params.prompt).v,
             model |-> <<"unknown">>,
             imageToken |-> remote.image_token,
             metadata |-> Assign(metadataRecord, "source_image_token", result.imageToken),
             downloadUrl |-> Undefined]
       ELSE [prompt |-> Trim(params.prompt.v),
             model |-> <<"dreamshaper8">>,
             imageToken |-> remote.image_token,
             metadata |-> metadataRecord,
             downloadUrl |-> Undefined]

\* The JSON payload of the success response
SuccessPayload(remote, savedRecord) ==
    IF tool = "upscale_image"
    THEN Payload(Coalesce(remote.image_token, savedRecord.imageToken),
                 Str(getResourceUri(savedRecord.id)), plan.jobId,
                 Num(OrElse(plan.scale, 2)), result.imageToken)
    ELSE IF tool = "image_to_image"
    THEN Payload(Coalesce(remote.image_token, savedRecord.imageToken),
                 Str(getResourceUri(savedRecord.id)), Undefined, NoNumber, result.imageToken)
    ELSE Payload(remote.image_token, Str(getResourceUri(savedRecord.id)), Undefined,
                 NoNumber, Undefined)

\* await saveImage(base64, {...}) and the return of the success response
SaveAndRespond(base64, remote) ==
    LET info == SaveInfo(remote)
        savedRecord == ImageRecord(uuidv4, info)
    IN /\ files' = (savedRecord.filename :> Base64Decode(base64)) @@ files
       /\ metadata' = writeMetadata(<<savedRecord>> \o readMetadata)
       /\ nextId' = nextId + 1
       /\ events' = Append(events, Ev("saveImage", info.imageToken, NoNumber, Undefined))
       /\ tpc' = "done"
       /\ response' = [kind |-> "result", error |-> NoError,
                       payload |-> SuccessPayload(remote, savedRecord)]
       /\ UNCHANGED raised

\* The error of a handler that ends up without image data
NoImageData ==
    McpError("InternalError",
             IF tool = "upscale_image"
             THEN <<"Upscale job completed but did not provide image_base64.">>
             ELSE <<"Image-to-image response did not include image data.">>)

\* The handler holds the remote result: it takes the image from it, fetches
\* it by token, or gives up
UseRemoteResult(remote) ==
    LET base64 == sanitizeOptionalString(remote.image_base64) IN
    /\ plan' = [plan EXCEPT !.remote = remote]
    /\ IF Truthy(base64)
       THEN SaveAndRespond(base64.v, remote)
       ELSE IF Truthy(remote.image_token)
       THEN /\ tpc' = "fetch"
            /\ events' = Append(events, Ev("getImageByToken", remote.image_token, NoNumber,
                                           Undefined))
            /\ UNCHANGED <<raised, response, storeVars>>
       ELSE Raise(NoImageData) /\ UNCHANGED <<events, storeVars>>

\* waitForJobResult has ended: its error leaves the handler, its result is used
UpscaleAfterWait ==
    /\ tpc = "wait" /\ wpc = "done"
    /\ IF outcome.kind = "throw"
       THEN Raise(outcome.error) /\ UNCHANGED <<plan, events, storeVars>>
       ELSE UseRemoteResult(outcome.result)
    /\ UNCHANGED <<tool, params, before, pollVars, resolveVars, saveVars>>

\* imageToImage resolves
ImageToImageReturn(resp) ==
    /\ tpc = "transform"
    /\ UseRemoteResult(resp)
    /\ UNCHANGED <<tool, params, before, pollVars, resolveVars, saveVars>>

\* imageToImage rejects
ImageToImageThrow(failure) ==
    /\ tpc = "transform"
    /\ Raise(handleError(failure, <<"Failed to perform image-to-image conversion">>))
    /\ UNCHANGED <<tool, params, plan, events, before, pollVars, storeVars, resolveVars,
                   saveVars>>

\* fetchImageBase64: getImageByToken resolves
FetchReturn(lookup) ==
    /\ tpc = "fetch"
    /\ LET base64 == sanitizeOptionalString(lookup.image_base64) IN
         IF Truthy(base64)
         THEN SaveAndRespond(base64.v, plan.remote)
         ELSE Raise(NoImageData) /\ UNCHANGED <<events, storeVars>>
    /\ UNCHANGED <<tool, params, plan, before, pollVars, resolveVars, saveVars>>

\* fetchImageBase64: getImageByToken rejects, the catch block answers undefined
FetchThrow(failure) ==
    /\ tpc = "fetch"
    /\ Raise(NoImageData)
    /\ warnings' = warnings + 1
    /\ UNCHANGED <<wpc, now, jobId, wopts, deadline, lastStatus, log, calls, sleeps, outcome>>
    /\ UNCHANGED <<tool, params, plan, events, before, storeVars, resolveVars, saveVars>>

\* generateImage resolves
GenerateReturn(resp) ==
    /\ tpc = "generate"
    /\ LET base64Payload == sanitizeOptionalString(resp.image_base64) IN
         IF ~Truthy(base64Payload)
         THEN /\ Raise(McpError("InternalError",
                  <<"Modal AI Image API did not return image_base64. Ensure include_base64=true or configure token download handling.">>))
              /\ UNCHANGED <<events, storeVars>>
         ELSE SaveAndRespond(base64Payload.v, resp)
    /\ UNCHANGED <<tool, params, plan, before, pollVars, resolveVars, saveVars>>

\* generateImage rejects
GenerateThrow(failure) ==
    /\ tpc = "generate"
    /\ Raise(handleError(failure, <<"Failed to generate image">>))
    /\ UNCHANGED <<tool, params, plan, events, before, pollVars, storeVars, resolveVars,
                   saveVars>>

\* Remote results of a job or of a synchronous call
RemoteMetadata ==
    Obj({<<"upscaled_from", Lit("tok-remote")>>, <<"upscale_scale", NumValue(8)>>,
         <<"source_image_token", Lit("tok-remote")>>, <<"width", NumValue(64)>>})

RemoteResults ==
    { JobResult(Lit("succeeded"), Lit("tok-new"), Lit("REVG"), RemoteMetadata),
      JobResult(Lit("succeeded"), Lit("tok-new"), Undefined, NoMetadata),
      JobResult(Lit("completed"), Undefined, Lit("REVG"), NoMetadata) }

ToolJobResponses ==
    RemoteResults \cup { Resp(Lit("running"), Undefined, Undefined),
                         Resp(Lit("failed"), Undefined, Lit("boom")) }

\* ImageTokenLookupResponse bodies
LookupResponses == { [image_base64 |-> Lit("REVG")], [image_base64 |-> Undefined] }

ToolFailures == { Failure(400, "ERR_BAD_REQUEST", Lit("bad job id"),
                          "Request failed with status code 400") }

\* Arguments of the requests
ToolReferences ==
    { NoInput,
      [NoInput EXCEPT !.resource_uri = Str(getResourceUri(<<"1">>))],
      [NoInput EXCEPT !.image_token = Lit("tok-a")],
      [NoInput EXCEPT !.image_base64 = Lit("QUJD")] }

ToolArguments ==
    { [NoParams EXCEPT !.resource_uri = ref.resource_uri, !.image_token = ref.image_token,
                       !.image_base64 = ref.image_base64, !.prompt = prompt,
                       !.scale = scale, !.poll_timeout_seconds = timeout,
                       !.poll_interval_seconds = interval, !.async = async,
                       !.strength = strength] :
      ref \in ToolReferences, prompt \in {Undefined, Lit("a dog")},
      scale \in {NoNumber, Num(4), Num(9), Fraction(2)},
      timeout \in {NoNumber, Num(1), Num(1800), Num(0), Num(1801), Fraction(2)},
      interval \in {NoNumber, Num(60), Num(61), Fraction(1)},
      async \in {Undefined, Bool("true"), Lit("maybe")},
      strength \in {NoNumber, Num(1), Num(2)} }

\* Arguments a caller sends with a tool: what the tool does not read is unset
ArgumentsOf(name) ==
    { a \in ToolArguments :
        /\ name # "upscale_image" => a.scale = NoNumber
        /\ name \notin {"image_to_image", "generate_image"} => a.prompt = Undefined
        /\ name # "image_to_image" => a.async = Undefined
        /\ name # "image_to_image" => a.strength = NoNumber
        /\ name # "upscale_image" => a.poll_interval_seconds = NoNumber
        /\ name \notin {"upscale_image", "image_to_image"}
             => a.poll_timeout_seconds = NoNumber /\ Ref(a) = NoInput }

ToolSaveInfos ==
    [prompt : {<<"a cat">>}, model : {<<"dreamshaper8">>},
     imageToken : {Undefined, Lit("tok-a")}, metadata : {NoMetadata},
     downloadUrl : {Undefined}]

NextTools ==
    \/ \E info \in ToolSaveInfos :
         /\ tpc = "idle" /\ metadata = <<>>
         /\ SaveImage(<<"QUJD">>, info)
         /\ UNCHANGED <<pollVars, saveVars, toolVars>>
    \/ \E f \in DOMAIN files :
         tpc = "idle" /\ FileLost(f) /\ UNCHANGED <<pollVars, saveVars, toolVars>>
    \/ \E name \in ToolNames : \E a \in ArgumentsOf(name) : CallTool(name, a)
    \/ EnsureStep
    \/ \E resp \in UploadResponses :
         UploadReturn(resp) /\ UNCHANGED <<pollVars, saveVars, toolVars>>
    \/ \E failure \in ToolFailures :
         UploadThrow(failure) /\ UNCHANGED <<pollVars, saveVars, toolVars>>
    \/ UpscaleSubmit
    \/ ImageToImageSubmit
    \/ \E job \in SubmitResponses : UpscaleJobReturn(job)
    \/ \E job \in SubmitResponses : ImageToImageJobReturn(job)
    \/ \E failure \in ToolFailures : SubmitThrow(failure)
    \/ /\ PollIssue
       /\ events' = Append(events, Ev("getJobResult", Undefined, NoNumber, plan.jobId))
       /\ UNCHANGED <<tpc, tool, params, plan, raised, response, before, storeVars,
                      resolveVars, saveVars>>
    \/ \E resp \in ToolJobResponses :
         PollReturn(resp, 0) /\ UNCHANGED <<storeVars, resolveVars, saveVars, toolVars>>
    \/ \E failure \in ToolFailures :
         PollThrow(failure, 0) /\ UNCHANGED <<storeVars, resolveVars, saveVars, toolVars>>
    \/ DelayDone(0) /\ UNCHANGED <<storeVars, resolveVars, saveVars, toolVars>>
    \/ TimeoutThrow /\ UNCHANGED <<storeVars, resolveVars, saveVars, toolVars>>
    \/ UpscaleAfterWait
    \/ \E resp \in RemoteResults : ImageToImageReturn(resp)
    \/ \E failure \in ToolFailures : ImageToImageThrow(failure)
    \/ \E lookup \in LookupResponses : FetchReturn(lookup)
    \/ \E failure \in ToolFailures : FetchThrow(failure)
    \/ \E resp \in RemoteResults : GenerateReturn(resp)
    \/ \E failure \in ToolFailures : GenerateThrow(failure)

----------------------------------------------------------------------------
(* Requests that only read the Local Record Store: resources/read,         *)
(* get_image_by_token and search_images (index.ts).  The records they read *)
(* were saved with params: {}.                                             *)

ReadOk(contents) == [ok |-> TRUE, contents |-> contents, error |-> NoError]
ReadFailed(err) == [ok |-> FALSE, contents |-> <<>>, error |-> err]

\* The first contents entry of a resource: the image
PrimaryContent(uri, base64, record) ==
    Obj({ <<"uri", Str(uri)>>, <<"blob", base64>>, <<"mimeType", Str(record.mimeType)>>,
          <<"description", Str(record.createdAt \o <<" | ">> \o record.model)>> }
        \cup (IF Truthy(record.downloadUrl)
              THEN {<<"downloadUrl", record.downloadUrl>>} ELSE {}))

\* The second contents entry: the record as JSON text
TextContent(uri, record) ==
    Obj({ <<"uri", Str(uri)>>, <<"mimeType", Lit("application/json")>>,
          <<"text", JsonObject(Obj({ <<"created_at", Str(record.createdAt)>>,
                                     <<"model", Str(record.model)>>,
                                     <<"prompt", Str(record.prompt)>>,
                                     <<"image_token", record.imageToken>>,
                                     <<"download_url", record.downloadUrl>>,
                                     <<"metadata", record.metadata>> }))>> })

BinaryUnavailable ==
    McpError("InternalError",
             <<"Image binary is unavailable. Regenerate the image or configure image_token download handling.">>)

\* A reader that answers with whatever the file read gave
buildReadResourceResponse_NoBytesCheck(uri) ==
    LET ext == extractResourceId(uri) IN
    IF ~ext.ok THEN ReadFailed(ext.error)
    ELSE LET record == getImageRecord(ext.id) IN
         IF record = <<>>
         THEN ReadFailed(McpError("InvalidRequest", <<"Resource not found: ">> \o uri))
         ELSE LET read == readImageBase64(record[1])
                  base64 == IF read.ok THEN read.base64 ELSE Undefined
              IN ReadOk(<<PrimaryContent(uri, base64, record[1]),
                          TextContent(uri, record[1])>>)

\* A reader that always writes the downloadUrl key
buildReadResourceResponse_AlwaysDownloadUrl(uri) ==
    LET ext == extractResourceId(uri) IN
    IF ~ext.ok THEN ReadFailed(ext.error)
    ELSE LET record == getImageRecord(ext.id) IN
         IF record = <<>>
         THEN ReadFailed(McpError("InvalidRequest", <<"Resource not found: ">> \o uri))
         ELSE LET read == readImageBase64(record[1])
                  base64 == IF read.ok THEN read.base64 ELSE Undefined
              IN IF base64.t # "string" \/ Trim(base64.v) = <<>>
                 THEN ReadFailed(BinaryUnavailable)
                 ELSE ReadOk(<<Assign(PrimaryContent(uri, base64, record[1]),
                                      "downloadUrl", record[1].downloadUrl),
                               TextContent(uri, record[1])>>)

\* buildReadResourceResponse(uri)
buildReadResourceResponse(uri) ==
    LET ext == extractResourceId(uri) IN
    IF ~ext.ok THEN ReadFailed(ext.error)
    ELSE LET record == getImageRecord(ext.id) IN
         IF record = <<>>
         THEN ReadFailed(McpError("InvalidRequest", <<"Resource not found: ">> \o uri))
         ELSE LET read == readImageBase64(record[1])
                  \* a failed read is logged and leaves base64 undefined
                  base64 == IF read.ok THEN read.base64 ELSE Undefined
              IN IF base64.t # "string" \/ Trim(base64.v) = <<>>
                 THEN ReadFailed(BinaryUnavailable)
                 ELSE ReadOk(<<PrimaryContent(uri, base64, record[1]),
                               TextContent(uri, record[1])>>)

\* The request ends: with the contents, or with the error as it is
Respond(r, err) ==
    /\ tpc' = "done"
    /\ raised' = r.error
    /\ response' = IF r.ok
                   THEN [kind |-> "result", payload |-> r.contents, error |-> NoError]
                   ELSE [kind |-> "throw", payload |-> NoPayload, error |-> err]

\* The ReadResource request handler
ReadResource(uri) ==
    /\ tpc = "idle" /\ rpc = "idle"
    /\ tool' = "resources/read"
    /\ params' = [NoParams EXCEPT !.resource_uri = Str(uri)]
    /\ before' = metadata
    /\ LET r == buildReadResourceResponse(uri) IN Respond(r, r.error)
    /\ UNCHANGED <<plan, events, pollVars, storeVars, resolveVars, saveVars>>

\* A handler that fails when the image file cannot be read
handleGetImageByToken_BytesRequired(image_token) ==
    IF image_token.t # "string" \/ Trim(image_token.v) = <<>>
    THEN ReadFailed(McpError("InvalidRequest",
                             <<"\"image_token\" is required and must be a non-empty string.">>))
    ELSE LET record == getImageRecordByToken(Trim(image_token.v)) IN
         IF record = <<>>
         THEN ReadFailed(McpError("InvalidRequest",
                                  <<"No image found with token: ">> \o image_token.v))
         ELSE LET rec == record[1]
                  read == readImageBase64(rec)
                  text == Obj({ <<"type", Lit("text")>>,
                                <<"text", JsonObject(Obj({<<"image_token", rec.imageToken>>}))>> })
              IN IF ~read.ok \/ ~Truthy(read.base64)
                 THEN ReadFailed(BinaryUnavailable)
                 ELSE ReadOk(<<Obj({ <<"type", Lit("image")>>, <<"data", read.base64>>,
                                     <<"mimeType", Str(rec.mimeType)>> }), text>>)

\* handleGetImageByToken(params): [ok, contents, error]
handleGetImageByToken(image_token) ==
    IF image_token.t # "string" \/ Trim(image_token.v) = <<>>
    THEN ReadFailed(McpError("InvalidRequest",
                             <<"\"image_token\" is required and must be a non-empty string.">>))
    ELSE LET record == getImageRecordByToken(Trim(image_token.v)) IN
         IF record = <<>>
         THEN ReadFailed(McpError("InvalidRequest",
                                  <<"No image found with token: ">> \o image_token.v))
         ELSE LET rec == record[1]
                  read == readImageBase64(rec)
                  base64 == IF read.ok THEN read.base64 ELSE Undefined
                  responseData ==
                      { <<"image_token", rec.imageToken>>,
                        <<"resource_uri", Str(getResourceUri(rec.id))>>,
                        <<"mime_type", Str(rec.mimeType)>>,
                        <<"prompt", Str(rec.prompt)>>, <<"model", Str(rec.model)>>,
                        <<"created_at", Str(rec.createdAt)>> }
                      \cup (IF rec.metadata.t # "undefined"
                            THEN {<<"metadata", rec.metadata>>} ELSE {})
                      \cup (IF Truthy(rec.downloadUrl)
                            THEN {<<"download_url", rec.downloadUrl>>} ELSE {})
                      \cup (IF Truthy(base64) THEN {<<"image_base64", base64>>} ELSE {})
                  image == Obj({ <<"type", Lit("image")>>, <<"data", base64>>,
                                 <<"mimeType", Str(rec.mimeType)>> })
                  text == Obj({ <<"type", Lit("text")>>,
                                <<"text", JsonObject(Obj(responseData))>> })
              IN ReadOk((IF Truthy(base64) THEN <<image>> ELSE <<>>) \o <<text>>)

\* tools/call of get_image_by_token, through the request handler's catch
GetImageByToken(image_token) ==
    /\ tpc = "idle" /\ rpc = "idle"
    /\ tool' = "get_image_by_token"
    /\ params' = [NoParams EXCEPT !.image_token = image_token]
    /\ before' = metadata
    /\ LET r == handleGetImageByToken(image_token) IN Respond(r, CallToolCatch(r.error))
    /\ UNCHANGED <<plan, events, pollVars, storeVars, resolveVars, saveVars>>

\* String.prototype.includes, counted in atoms
Includes(text, part) ==
    \E i \in 1..(Len(text) - Len(part) + 1) : SubSeq(text, i, i + Len(part) - 1) = part

MathMin(a, b) == IF a <= b THEN a ELSE b

\* Number.isFinite(Number(limit)) ? Math.min(Math.max(Math.floor(...), 1), 20) : 5
NormalizedLimit(limit) ==
    IF limit.t \in {"undefined", "text"} THEN 5
    ELSE IF limit.t = "empty" THEN 1
    ELSE MathMin(MathMax(limit.n, 1), 20)

\* Array.prototype.filter
RECURSIVE Filter(_, _)
Filter(records, keep) ==
    IF records = <<>> THEN <<>>
    ELSE (IF keep[1] THEN <<Head(records)>> ELSE <<>>)
         \o Filter(Tail(records), Tail(keep))

\* images.sort((a, b) => Date.parse(b.createdAt) - Date.parse(a.createdAt)):
\* a stable sort, newest first
RECURSIVE SortNewestFirst(_)
SortNewestFirst(images) ==
    IF images = <<>> THEN <<>>
    ELSE LET newest == Max({DateParse(images[i].createdAt) : i \in DOMAIN images})
             k == Min({i \in DOMAIN images : DateParse(images[i].createdAt) = newest})
         IN <<images[k]>>
            \o SortNewestFirst(SubSeq(images, 1, k - 1) \o SubSeq(images, k + 1, Len(images)))

\* One entry of results, as it is written by JSON.stringify
SearchResult(record) ==
    JsonObject(Obj({ <<"id", Str(record.id)>>,
                     <<"resource_uri", Str(getResourceUri(record.id))>>,
                     <<"created_at", Str(record.createdAt)>>,
                     <<"model", Str(record.model)>>, <<"prompt", Str(record.prompt)>>,
                     <<"mime_type", Str(record.mimeType)>>,
                     <<"image_token", record.imageToken>>,
                     <<"download_url", record.downloadUrl>>,
                     <<"metadata", record.metadata>> }))

\* handleSearchImages(params): [ok, contents, error]; contents is the JSON
\* of the text entry
handleSearchImages(a) ==
    LET normalizedLimit == NormalizedLimit(a.limit)
        beforeGiven == Truthy(a.before)
        afterGiven == Truthy(a.after)
        beforeTime == IF beforeGiven THEN DateParse(a.before.v) ELSE NaN
        afterTime == IF afterGiven THEN DateParse(a.after.v) ELSE NaN
        queryLower == IF a.query.t = "string" THEN ToLowerCase(Trim(a.query.v)) ELSE <<>>
        modelLower == IF a.model.t = "string" THEN ToLowerCase(Trim(a.model.v)) ELSE <<>>
        all == readMetadata
        byQuery == IF queryLower = <<>> THEN all
                   ELSE Filter(all, [i \in DOMAIN all |->
                            \/ Includes(ToLowerCase(all[i].prompt), queryLower)
                            \/ Includes(<<"{}">>, queryLower)])
        byModel == IF modelLower = <<>> THEN byQuery
                   ELSE Filter(byQuery, [i \in DOMAIN byQuery |->
                            ToLowerCase(byQuery[i].model) = modelLower])
        byAfter == IF ~afterGiven THEN byModel
                   ELSE Filter(byModel, [i \in DOMAIN byModel |->
                            DateParse(byModel[i].createdAt) >= afterTime])
        byBefore == IF ~beforeGiven THEN byAfter
                    ELSE Filter(byAfter, [i \in DOMAIN byAfter |->
                            DateParse(byAfter[i].createdAt) <= beforeTime])
        images == SortNewestFirst(byBefore)
        limited == SubSeq(images, 1, MathMin(normalizedLimit, Len(images)))
    IN IF beforeGiven /\ beforeTime = NaN
       THEN ReadFailed(McpError("InvalidRequest",
                                <<"Invalid \"before\" timestamp: ">> \o a.before.v))
       ELSE IF afterGiven /\ afterTime = NaN
       THEN ReadFailed(McpError("InvalidRequest",
                                <<"Invalid \"after\" timestamp: ">> \o a.after.v))
       ELSE ReadOk([total_matches |-> Len(images), returned |-> Len(limited),
                    results |-> [i \in DOMAIN limited |-> SearchResult(limited[i])]])

\* tools/call of search_images, through the request handler's catch
SearchImages(a) ==
    /\ tpc = "idle" /\ rpc = "idle"
    /\ tool' = "search_images"
    /\ params' = a
    /\ before' = metadata
    /\ LET r == handleSearchImages(a) IN Respond(r, CallToolCatch(r.error))
    /\ UNCHANGED <<plan, events, pollVars, storeVars, resolveVars, saveVars>>

\* The clock of the host moves on between two requests
Tick ==
    /\ tpc = "idle" /\ rpc = "idle"
    /\ now < MaxClock
    /\ now' = now + 1
    /\ UNCHANGED <<wpc, jobId, wopts, deadline, lastStatus, log, calls, sleeps, warnings,
                   outcome>>

\* What earlier requests passed to saveImage
ReadInfos ==
    { [prompt |-> <<"a", " ", "cat">>, model |-> <<"sd21">>, imageToken |-> Lit("tok-a"),
       metadata |-> Obj({<<"seed", NumValue(7)>>}),
       downloadUrl |-> Lit("https://example.com/a.png")],
      [prompt |-> <<"a", " ", "dog">>, model |-> <<"modal-upscale">>,
       imageToken |-> Undefined, metadata |-> NoMetadata, downloadUrl |-> Undefined] }

SearchArguments ==
    [query : {Undefined, Lit("cat")}, model : {Undefined, Lit("sd21")},
     limit : {NoNumber, Num(1), Num(25)},
     before : {Undefined, Str(<<>>), Str(IsoString(1)), Lit("yesterday")},
     after : {Undefined, Str(IsoString(1)), Lit("yesterday")}]

NextRead ==
    \/ \E data \in SaveData, info \in ReadInfos :
         /\ tpc = "idle"
         /\ SaveImage(data, info)
         /\ UNCHANGED <<pollVars, saveVars, toolVars>>
    \/ \E f \in DOMAIN files :
         tpc = "idle" /\ FileLost(f) /\ UNCHANGED <<pollVars, saveVars, toolVars>>
    \/ Tick /\ UNCHANGED <<storeVars, resolveVars, saveVars, toolVars>>
    \/ \E uri \in {u.v : u \in {x \in ResourceUriInputs : x.t = "string"}} :
         ReadResource(uri)
    \/ \E token \in ImageTokenInputs : GetImageByToken(token)
    \/ \E a \in SearchArguments : SearchImages(a)

----------------------------------------------------------------------------
(* store_image_from_url (index.ts).  Its callers here leave source,        *)
(* negative_prompt, parameters, derived_from, tags, extra and filename     *)
(* unset.                                                                  *)

\* new URL(text): [ok, protocol]
ParseUrl(text) ==
    IF Len(text) = 2 /\ text[1] \in {"http:", "https:", "ftp:"}
    THEN [ok |-> TRUE, protocol |-> text[1]]
    ELSE [ok |-> FALSE, protocol |-> ""]

\* The locals of handleStoreImageFromUrl
ImportPlan(imageUrl, prompt) ==
    [imageUrl |-> imageUrl, prompt |-> prompt, storeError |-> NoError,
     storeToken |-> Undefined, finalImageToken |-> Undefined,
     metadataRecord |-> NoMetadata, base64 |-> Undefined, mimeType |-> Undefined,
     downloaded |-> <<>>, usedFallbackUpload |-> FALSE]

\* handleStoreImageFromUrl up to the call of storeImageFromUrl
StoreImageFromUrl(a) ==
    /\ tpc = "idle" /\ rpc = "idle"
    /\ tool' = "store_image_from_url"
    /\ params' = a
    /\ before' = metadata
    /\ LET imageUrl == sanitizeOptionalString(a.image_url)
           parsedUrl == ParseUrl(imageUrl.v)
           timeout == parseOptionalNumber(a.timeout, "timeout", Num(0), NoNumber)
           maxBytes == parseOptionalInteger(a.max_bytes, "max_bytes", Num(1), NoNumber)
       IN IF ~Truthy(imageUrl)
          THEN /\ Raise(McpError("InvalidRequest",
                        <<"\"image_url\" is required and must be a non-empty string.">>))
               /\ UNCHANGED <<plan, events>>
          ELSE IF ~parsedUrl.ok
          THEN /\ Raise(McpError("InvalidRequest",
                        <<"\"image_url\" must be a valid HTTP or HTTPS URL.">>))
               /\ UNCHANGED <<plan, events>>
          ELSE IF parsedUrl.protocol \notin {"http:", "https:"}
          THEN /\ Raise(McpError("InvalidRequest",
                                 <<"Only HTTP and HTTPS URLs are supported.">>))
               /\ UNCHANGED <<plan, events>>
          ELSE IF ~timeout.ok
          THEN Raise(timeout.error) /\ UNCHANGED <<plan, events>>
          ELSE IF ~maxBytes.ok
          THEN Raise(maxBytes.error) /\ UNCHANGED <<plan, events>>
          ELSE /\ tpc' = "store"
               /\ plan' = ImportPlan(imageUrl.v, sanitizeOptionalString(a.prompt))
               /\ events' = Append(events, Ev("storeImageFromUrl", Undefined, NoNumber,
                                              Undefined))
               /\ UNCHANGED <<raised, response>>
    /\ UNCHANGED <<pollVars, storeVars, resolveVars, saveVars>>

\* The handler goes on without image data: it downloads the URL itself
StartDownload(p) ==
    /\ tpc' = "download"
    /\ plan' = p
    /\ events' = Append(events, Ev("download", Undefined, NoNumber, Undefined))
    /\ UNCHANGED <<raised, response, storeVars, uploads>>

\* The handler holds the store token: fetchImageBase64(finalImageToken)
StartLookup(p) ==
    /\ tpc' = "lookup"
    /\ plan' = p
    /\ events' = Append(events, Ev("getImageByToken", p.finalImageToken, NoNumber,
                                   Undefined))
    /\ UNCHANGED <<raised, response, storeVars, uploads>>

\* storeImageFromUrl resolves
StoreReturn(resp) ==
    /\ tpc = "store"
    /\ LET token == sanitizeOptionalString(resp.image_token)
           p == [plan EXCEPT !.storeToken = token, !.finalImageToken = token,
                             !.metadataRecord = IF resp.metadata.t = "undefined"
                                                THEN Obj({}) ELSE resp.metadata]
       IN IF Truthy(token) THEN StartLookup(p) ELSE StartDownload(p)
    /\ UNCHANGED <<tool, params, before, pollVars, rpc, input, eopts, resolved, storeReads,
                   fileReads, uploadReplies, first, result, saveVars>>

\* storeImageFromUrl rejects: the error is kept and the fallback begins
StoreThrow(failure) ==
    /\ tpc = "store"
    /\ StartDownload([plan EXCEPT !.storeError =
                         handleError(failure, <<"Failed to store image from URL">>)])
    /\ UNCHANGED <<tool, params, before, pollVars, rpc, input, eopts, resolved, storeReads,
                   fileReads, uploadReplies, first, result, saveVars>>

\* What handleStoreImageFromUrl passes to saveImage
ImportSaveInfo(p) ==
    LET withUrl == Assign(IF p.metadataRecord.t = "undefined" THEN Obj({})
                          ELSE p.metadataRecord,
                          "original_url", Str(p.imageUrl))
    IN [prompt |-> IF Truthy(p.prompt) THEN p.prompt.v
                   ELSE <<"Imported from ">> \o p.imageUrl,
        model |-> <<"url-import">>,
        imageToken |-> p.finalImageToken,
        metadata |-> IF p.usedFallbackUpload
                     THEN Assign(withUrl, "fallback_upload_used", Bool("true"))
                     ELSE withUrl,
        downloadUrl |-> Str(p.imageUrl),
        mimeType |-> IF p.mimeType.t = "undefined" THEN <<"image/png">> ELSE p.mimeType.v]

\* pruneUndefined({...}): the JSON payload of the success response
ImportPayload(p, savedRecord) ==
    JsonObject(Obj({ <<"image_token", p.finalImageToken>>,
                     <<"resource_uri", Str(getResourceUri(savedRecord.id))>>,
                     <<"mime_type", Str(savedRecord.mimeType)>>,
                     <<"created_at", Str(savedRecord.createdAt)>>,
                     <<"metadata", savedRecord.metadata>>,
                     <<"prompt", Str(savedRecord.prompt)>>,
                     <<"fallback_upload_used",
                       IF p.usedFallbackUpload THEN Bool("true") ELSE Undefined>> }))

\* The end of the handler: the check of base64 and finalImageToken,
\* saveImage and the success response
ImportFinish(p) ==
    /\ plan' = p
    /\ IF ~Truthy(p.base64) \/ ~Truthy(p.finalImageToken)
       THEN /\ Raise(McpError("InternalError",
                       <<"Unable to store image from URL. Modal response: ">> \o
                       (IF p.storeError # NoError THEN p.storeError.message
                        ELSE <<"Unknown Modal error">>)))
            /\ UNCHANGED <<events, storeVars>>
       ELSE LET info == ImportSaveInfo(p)
                savedRecord == ImageRecord(uuidv4, info)
            IN /\ files' = (savedRecord.filename :> Base64Decode(p.base64.v)) @@ files
               /\ metadata' = writeMetadata(<<savedRecord>> \o readMetadata)
               /\ nextId' = nextId + 1
               /\ events' = Append(events, Ev("saveImage", info.imageToken, NoNumber,
                                              Undefined))
               /\ tpc' = "done"
               /\ response' = [kind |-> "result", error |-> NoError,
                               payload |-> ImportPayload(p, savedRecord)]
               /\ UNCHANGED raised

\* fetchImageBase64 of the stored token: getImageByToken resolves
LookupReturn(lookup) ==
    /\ tpc = "lookup"
    /\ LET base64 == sanitizeOptionalString(lookup.image_base64) IN
         IF Truthy(base64)
         THEN ImportFinish([plan EXCEPT !.base64 = base64]) /\ UNCHANGED uploads
         ELSE StartDownload(plan)
    /\ UNCHANGED <<tool, params, before, pollVars, rpc, input, eopts, resolved, storeReads,
                   fileReads, uploadReplies, first, result, saveVars>>

\* fetchImageBase64 of the stored token: getImageByToken rejects
LookupThrow(failure) ==
    /\ tpc = "lookup"
    /\ StartDownload(plan)
    /\ warnings' = warnings + 1
    /\ UNCHANGED <<wpc, now, jobId, wopts, deadline, lastStatus, log, calls, sleeps, outcome>>
    /\ UNCHANGED <<tool, params, before, rpc, input, eopts, resolved, storeReads,
                   fileReads, uploadReplies, first, result, saveVars>>

\* downloadImageToBase64 resolves: without a token the bytes are uploaded
DownloadReturn(d) ==
    /\ tpc = "download"
    /\ LET p == [plan EXCEPT !.base64 = Str(d.base64), !.mimeType = Str(d.mimeType),
                             !.downloaded = <<d>>]
       IN IF ~Truthy(p.finalImageToken)
          THEN /\ tpc' = "fallback"
               /\ plan' = p
               /\ uploads' = Append(uploads, [image_base64 |-> d.base64,
                                              source |-> <<"url-import">>])
               /\ events' = Append(events, Ev("uploadImage", Undefined, NoNumber, Undefined))
               /\ UNCHANGED <<raised, response, storeVars>>
          ELSE ImportFinish(p) /\ UNCHANGED uploads
    /\ UNCHANGED <<tool, params, before, pollVars, rpc, input, eopts, resolved, storeReads,
                   fileReads, uploadReplies, first, result, saveVars>>

\* downloadImageToBase64 rejects
DownloadThrow(message) ==
    /\ tpc = "download"
    /\ Raise(McpError("InternalError",
                      <<"Failed to download image from URL for caching: ", message>>))
    /\ UNCHANGED <<tool, params, plan, events, before, pollVars, storeVars, resolveVars,
                   saveVars>>

\* The fallback uploadImage resolves
FallbackReturn(resp) ==
    /\ tpc = "fallback"
    /\ uploadReplies' = Append(uploadReplies, resp)
    /\ LET token == sanitizeOptionalString(resp.image_token) IN
         IF ~Truthy(token)
         THEN /\ Raise(McpError("InternalError",
                               <<"Fallback upload response did not include image_token.">>))
              /\ UNCHANGED <<plan, events, storeVars>>
         ELSE ImportFinish([plan EXCEPT !.finalImageToken = token,
                                        !.metadataRecord = Obj({}),
                                        !.usedFallbackUpload = TRUE])
    /\ UNCHANGED <<tool, params, before, pollVars, rpc, input, eopts, resolved, storeReads,
                   fileReads, uploads, first, result, saveVars>>

\* The fallback uploadImage rejects
FallbackThrow(failure) ==
    /\ tpc = "fallback"
    /\ Raise(McpError("InternalError",
                      <<"Fallback upload to Modal failed: ">> \o
                      uploadImageError(failure).message))
    /\ UNCHANGED <<tool, params, plan, events, before, pollVars, storeVars, resolveVars,
                   saveVars>>

\* Arguments of store_image_from_url
ImportUrls ==
    { Undefined, Str(<<"https:", "//example.com/cat.png">>),
      Str(<<" ", "http:", "//example.com/cat.png">>),
      Str(<<"ftp:", "//example.com/cat.png">>), Lit("not a url") }

ImportArguments ==
    [image_url : ImportUrls, prompt : {Undefined, Lit("a cat")},
     timeout : {NoNumber, Num(5), NotNumeric}, max_bytes : {NoNumber, Num(0)}]

\* ImageUploadResponse bodies of the store-from-url endpoint
ImportStoreResponses ==
    { [image_token |-> Lit("tok-url"), metadata |-> Obj({<<"width", NumValue(64)>>})],
      [image_token |-> Lit("tok-url"), metadata |-> NoMetadata],
      [image_token |-> Undefined, metadata |-> NoMetadata] }

\* What the download of the URL gives
Downloads ==
    { [base64 |-> <<"REVG">>, mimeType |-> <<"image/jpeg">>],
      [base64 |-> <<"QUJD">>, mimeType |-> <<"application/octet-stream">>],
      [base64 |-> <<>>, mimeType |-> <<"image/png">>] }

DownloadErrors == { "Timed out fetching image after 30000ms." }

NextImport ==
    \/ \E info \in ToolSaveInfos :
         /\ tpc = "idle" /\ Len(metadata) < MaxRecords - 1
         /\ SaveImage(<<"QUJD">>, info)
         /\ UNCHANGED <<pollVars, saveVars, toolVars>>
    \/ Tick /\ UNCHANGED <<storeVars, resolveVars, saveVars, toolVars>>
    \/ \E a \in ImportArguments : StoreImageFromUrl(a)
    \/ \E resp \in ImportStoreResponses : StoreReturn(resp)
    \/ \E failure \in ToolFailures : StoreThrow(failure)
    \/ \E lookup \in LookupResponses : LookupReturn(lookup)
    \/ \E failure \in ToolFailures : LookupThrow(failure)
    \/ \E d \in Downloads : DownloadReturn(d)
    \/ \E message \in DownloadErrors : DownloadThrow(message)
    \/ \E resp \in UploadResponses : FallbackReturn(resp)
    \/ \E failure \in ToolFailures : FallbackThrow(failure)

----------------------------------------------------------------------------
(* Initial state.                                                          *)

Init ==
    /\ wpc = "idle"
    /\ now = 0
    /\ jobId = "j1"
    /\ wopts = [includeBase64 |-> "undefined", pollIntervalSeconds |-> NoNumber,
                timeoutSeconds |-> NoNumber]
    /\ deadline = 0
    /\ lastStatus = Undefined
    /\ log = <<>>
    /\ calls = 0
    /\ sleeps = 0
    /\ warnings = 0
    /\ outcome = NoOutcome
    /\ metadata = <<>>
    /\ files = <<>>
    /\ nextId = 1
    /\ rpc = "idle"
    /\ input = NoInput
    /\ eopts = NoEnsureOptions
    /\ resolved = NotResolved
    /\ storeReads = 0
    /\ fileReads = 0
    /\ uploads = <<>>
    /\ uploadReplies = <<>>
    /\ first = NoFirst
    /\ result = NoResult
    /\ sv = [p \in Savers |-> NotSaving]
    /\ history = <<>>
    /\ overlap = FALSE
    /\ tpc = "idle"
    /\ tool = ""
    /\ params = NoParams
    /\ plan = NoPlan
    /\ events = <<>>
    /\ raised = NoError
    /\ response = NoToolResponse
    /\ before = <<>>

SpecPoll == Init /\ [][NextPoll]_vars

\* Every getJobResult call returns or throws, every timer fires and the
\* event loop resumes the awaiting function
SpecWait == Init /\ [][NextWait]_vars /\ WF_vars(NextWait)

SpecResolve == Init /\ [][NextResolve]_vars

NextRepeat ==
    \/ \E data \in SaveData, info \in SaveInfos : SaveImage(data, info) /\ UNCHANGED <<pollVars, saveVars, toolVars>>
    \/ \E f \in DOMAIN files : FileLost(f) /\ UNCHANGED <<pollVars, saveVars, toolVars>>
    \/ \E in \in RepeatInputs, options \in EnsureOptions :
         ResolveImageReference(in, options) /\ UNCHANGED <<pollVars, saveVars, toolVars>>
    \/ EnsureImageToken /\ UNCHANGED <<pollVars, saveVars, toolVars>>
    \/ \E resp \in UploadResponses : UploadReturn(resp) /\ UNCHANGED <<pollVars, saveVars, toolVars>>
    \/ \E failure \in HttpFailures : UploadThrow(failure) /\ UNCHANGED <<pollVars, saveVars, toolVars>>
    \/ ResolveAgain /\ UNCHANGED <<pollVars, saveVars, toolVars>>

SpecRepeat == Init /\ [][NextRepeat]_vars

NextCaption ==
    \/ \E data \in SaveData, info \in SaveInfos :
         SaveImage(data, info) /\ UNCHANGED <<pollVars, saveVars, toolVars>>
    \/ \E f \in DOMAIN files : FileLost(f) /\ UNCHANGED <<pollVars, saveVars, toolVars>>
    \/ \E in \in RepeatInputs, options \in EnsureOptions :
         ResolveImageReference(in, options) /\ UNCHANGED <<pollVars, saveVars, toolVars>>
    \/ EnsureImageToken /\ UNCHANGED <<pollVars, saveVars, toolVars>>
    \/ CaptionImageReference /\ UNCHANGED <<pollVars, saveVars, toolVars>>
    \/ \E resp \in UploadResponses :
         UploadReturn(resp) /\ UNCHANGED <<pollVars, saveVars, toolVars>>
    \/ \E failure \in HttpFailures :
         UploadThrow(failure) /\ UNCHANGED <<pollVars, saveVars, toolVars>>

SpecCaption == Init /\ [][NextCaption]_vars

SpecRead == Init /\ [][NextRead]_vars

SpecImport == Init /\ [][NextImport]_vars

SpecStore == Init /\ [][NextStore]_vars

SpecTools == Init /\ [][NextTools]_vars

----------------------------------------------------------------------------
(* Properties of waitForJobResult (checked under SpecPoll).                *)

\* Lower-cased status of a log entry, <<>> when it carries none
EntryStatus(e) ==
    IF e.kind = "response" /\ e.resp.status.t = "string"
    THEN ToLowerCase(e.resp.status.v) ELSE <<>>

FailureWords == {<<"failed">>, <<"error">>, <<"cancelled">>}
SuccessWords == {<<"succeeded">>, <<"completed">>}

\* A not-found answer or a network failure of the HTTP request
IsTransientFailure(f) == f.http = 404 \/ f.code \in {"ECONNREFUSED", "ENOTFOUND", "ECONNABORTED"}

\* C1: a job-result response whose status is 'failed', 'error' or
\* 'cancelled' (in any letter case) makes the call fail at once with the
\* job-failed error that carries the remote error detail; that response is
\* the last poll and no sleep follows it.
C1_FailureStatusFailsImmediately ==
    \A i \in DOMAIN log :
        EntryStatus(log[i]) \in FailureWords =>
            /\ i = Len(log)
            /\ wpc = "done"
            /\ calls = i
            /\ sleeps = i - 1
            /\ outcome.kind = "throw"
            /\ outcome.error = JobFailedError(jobId, log[i].resp)

\* C2: when the first three responses are queued, running and then
\* succeeded (or completed), the call has returned exactly the third
\* response after 3 getJobResult calls and 2 sleeps, and nothing follows.
C2_QueuedRunningSucceeded ==
    ( /\ Len(log) >= 3
      /\ EntryStatus(log[1]) = <<"queued">>
      /\ EntryStatus(log[2]) = <<"running">>
      /\ EntryStatus(log[3]) \in SuccessWords )
    => /\ Len(log) = 3
       /\ wpc = "done"
       /\ calls = 3
       /\ sleeps = 2
       /\ outcome = [kind |-> "return", result |-> log[3].resp, error |-> NoError]

C2_Witness ==
    /\ wpc = "done"
    /\ Len(log) = 3
    /\ EntryStatus(log[1]) = <<"queued">>
    /\ EntryStatus(log[2]) = <<"running">>
    /\ EntryStatus(log[3]) = <<"succeeded">>
    /\ outcome.kind = "return"
    /\ now < deadline

\* C3: a transient getJobResult error followed by a later poll that
\* answers succeeded ends the call by returning that answer, and no error
\* thrown by getJobResult is ever the outcome of the call.
C3_TransientErrorThenSuccess ==
    /\ \A i \in DOMAIN log : \A j \in DOMAIN log :
           ( /\ i < j
             /\ log[i].kind = "error"
             /\ IsTransientFailure(log[i].failure)
             /\ EntryStatus(log[j]) \in SuccessWords )
           => /\ j = Len(log)
              /\ wpc = "done"
              /\ outcome = [kind |-> "return", result |-> log[j].resp, error |-> NoError]
    /\ \A i \in DOMAIN log :
           (log[i].kind = "error" /\ IsTransientFailure(log[i].failure))
           => outcome.error # getJobResultError(jobId, log[i].failure)

C3_Witness ==
    /\ wpc = "done"
    /\ Len(log) = 2
    /\ log[1].kind = "error"
    /\ log[1].failure.code = "ECONNREFUSED"
    /\ EntryStatus(log[2]) = <<"succeeded">>
    /\ outcome.kind = "return"

\* Status words that end the loop according to the contract
TerminalWords == SuccessWords \cup FailureWords

\* The status the timeout message is expected to name: the lower-cased
\* status of the most recent response that carried one, else 'unknown'
LastObservedStatus ==
    LET carrying == {i \in DOMAIN log : log[i].kind = "response" /\ log[i].resp.status.t = "string"}
    IN IF carrying = {} THEN <<"unknown">> ELSE EntryStatus(log[Max(carrying)])

\* C4: when the call has ended and no poll returned a terminal status, it
\* ended with the timeout error, after at least one poll, and the message
\* names the job id, the configured timeoutSeconds and the last observed
\* status ('unknown' when no response carried a status).
C4_TimeoutNamesLastStatus ==
    ( /\ wpc = "done"
      /\ \A i \in DOMAIN log : EntryStatus(log[i]) \notin TerminalWords )
    => /\ outcome.kind = "throw"
       /\ calls >= 1
       /\ outcome.error =
            McpError("InternalError",
                     <<"Job ", jobId, " did not complete within ",
                       ToString(OrElse(wopts.timeoutSeconds, 300)),
                       " seconds (last status: ">> \o LastObservedStatus \o <<").">>)

\* C5: every failure of a poll that is not a transient error (a terminal
\* job failure, or a remote error such as bad request) ends the call at
\* that poll with that error as the outcome.
C5_OnlyTransientErrorsSwallowed ==
    \A i \in DOMAIN log :
        /\ (log[i].kind = "error" /\ ~IsTransientFailure(log[i].failure))
           => /\ i = Len(log)
              /\ wpc = "done"
              /\ outcome = [kind |-> "throw", result |-> NoResponse,
                            error |-> getJobResultError(jobId, log[i].failure)]
        /\ (EntryStatus(log[i]) \in FailureWords)
           => /\ i = Len(log)
              /\ wpc = "done"
              /\ outcome.kind = "throw"
              /\ outcome.error.code = "InternalError"
              /\ outcome.error.message # TimeoutError(jobId, wopts, lastStatus).message

----------------------------------------------------------------------------
(* Properties of resolveImageReference and ensureImageToken (checked       *)
(* under SpecResolve).                                                     *)

\* A field of the request is set: a string with a non-blank character
IsSet(x) == x.t = "string" /\ \E i \in DOMAIN x.v : x.v[i] # " "

CountSet(in) ==
    (IF IsSet(in.resource_uri) THEN 1 ELSE 0) + (IF IsSet(in.image_token) THEN 1 ELSE 0)
    + (IF IsSet(in.image_base64) THEN 1 ELSE 0)

\* The first set field in the order resource_uri, image_token, image_base64
FirstSet(in) ==
    IF IsSet(in.resource_uri) THEN "resource_uri"
    ELSE IF IsSet(in.image_token) THEN "image_token"
    ELSE IF IsSet(in.image_base64) THEN "image_base64"
    ELSE "none"

\* The request with every field but one removed
Only(in, field) ==
    [resource_uri |-> IF field = "resource_uri" THEN in.resource_uri ELSE Undefined,
     image_token |-> IF field = "image_token" THEN in.image_token ELSE Undefined,
     image_base64 |-> IF field = "image_base64" THEN in.image_base64 ELSE Undefined]

TokenKnown(token) == \E i \in DOMAIN metadata : metadata[i].imageToken = Str(token)

\* C6: the first non-blank field in the order resource_uri, image_token,
\* image_base64 decides the resolution and the other fields are ignored: the
\* outcome (a failure included) is the one of the request reduced to that
\* field, and an image_token without a local record resolves to that token
\* with no record.
C6_FirstFieldWins ==
    (rpc # "idle" /\ CountSet(input) >= 1) =>
        /\ resolved = resolveImageReference(Only(input, FirstSet(input)))
        /\ resolved.ok => resolved.reference.source = FirstSet(input)
        /\ (FirstSet(input) = "image_token" /\ ~TokenKnown(Trim(input.image_token.v)))
           => /\ resolved.ok
              /\ resolved.reference.imageToken = Str(Trim(input.image_token.v))
              /\ resolved.reference.record = <<>>
        /\ FirstSet(input) = "image_base64"
           => /\ resolved.ok
              /\ resolved.reference.directBase64 = Str(Trim(input.image_base64.v))
              /\ resolved.reference.imageToken = Undefined

C6_Witness ==
    /\ rpc = "done"
    /\ CountSet(input) = 3
    /\ metadata # <<>>
    /\ TokenKnown(Trim(input.image_token.v))
    /\ ~resolved.ok
    /\ result.kind = "throw"

\* C7: a request in which none of the three fields is set fails with
\* InvalidRequest whatever the options are, without any metadata read, file
\* read or remote call.
C7_NoReferenceIsInvalidRequest ==
    (rpc # "idle" /\ CountSet(input) = 0) =>
        /\ rpc = "done"
        /\ result.kind = "throw"
        /\ result.error.code = "InvalidRequest"
        /\ storeReads = 0
        /\ fileReads = 0
        /\ uploads = <<>>

C7_Witness ==
    /\ rpc = "done"
    /\ CountSet(input) = 0
    /\ input.image_token = Lit(" ")
    /\ input.resource_uri = NotAString
    /\ eopts.uploadIfNeeded = "true"
    /\ metadata # <<>>
    /\ result.error.code = "InvalidRequest"

\* The request names a well-formed resource URI whose id has no record
NamesMissingRecord ==
    /\ IsSet(input.resource_uri)
    /\ LET uri == Trim(input.resource_uri.v) IN
         /\ Len(uri) > 1
         /\ Head(uri) = "resource://ai-image-api/image/"
         /\ \E i \in 2..Len(uri) : uri[i] # " "
         /\ \A k \in DOMAIN metadata : metadata[k].id # Trim(Tail(uri))

C9_ExactlyOneVariant ==
    (rpc # "idle" /\ resolved.ok) => CountSet(input) = 1

\* C9 as amended: a resolved request supplied at least one of the three
\* fields, and when it supplied several the reference comes from the first
\* of them in the order resource_uri, image_token, image_base64.
C9_AtLeastOneVariant ==
    (rpc # "idle" /\ resolved.ok) =>
        /\ CountSet(input) >= 1
        /\ resolved.reference.source = FirstSet(input)
        /\ (resolved.reference.source # "image_base64") => resolved.reference.directBase64 = Undefined
        /\ (resolved.reference.source = "image_base64") => resolved.reference.record = <<>>

C9_Witness ==
    /\ rpc # "idle"
    /\ resolved.ok
    /\ CountSet(input) = 3
    /\ resolved.reference.source = "resource_uri"

\* C10: with uploadIfNeeded=true a resolved reference ends in a failure or
\* in a non-empty image token; without it the call fails with InvalidRequest
\* exactly when the reference carries no token.
C10_TokenNonEmptyOrFailure ==
    (rpc = "done" /\ resolved.ok) =>
        /\ eopts.uploadIfNeeded = "true"
           => (result.kind = "throw" \/ Truthy(result.imageToken))
        /\ eopts.uploadIfNeeded # "true"
           => ( (result.kind = "throw" /\ result.error.code = "InvalidRequest")
                <=> ~Truthy(resolved.reference.imageToken) )

\* Bytes ensureImageToken has at hand for a reference without a token: the
\* inline bytes, else the bytes of the record's image file (none when the
\* file is missing)
BytesAtHand ==
    LET ref == resolved.reference IN
    IF ref.source = "image_base64" THEN Base64Decode(input.image_base64.v)
    ELSE IF ref.record # <<>> /\ ref.record[1].filename \in DOMAIN files
    THEN files[ref.record[1].filename]
    ELSE <<>>

\* C11 as stated: every reference without a token that is resolved with
\* uploadIfNeeded = true causes exactly one uploadImage call, and what is
\* returned is the image_token of that call's response; a reference that
\* carries a token causes no uploadImage call.
C11_AlwaysOneUpload ==
    LET ref == resolved.reference IN
    /\ (resolved.ok /\ Truthy(ref.imageToken)) => uploads = <<>>
    /\ (rpc = "done" /\ resolved.ok /\ ~Truthy(ref.imageToken)
        /\ eopts.uploadIfNeeded = "true")
       => /\ Len(uploads) = 1
          /\ result.kind = "return"
             => /\ Len(uploadReplies) = 1
                /\ result.imageToken = uploadReplies[1].image_token

\* C11, amended: for a reference without a token, with uploadIfNeeded = true
\* and bytes at hand, ensureImageToken issues exactly one uploadImage call,
\* its image_base64 decodes to exactly those bytes, and what it returns is
\* the image_token of that call's response; with no bytes at hand it throws
\* InvalidRequest and issues no call; a reference that carries a token
\* causes no uploadImage call, and no invocation issues more than one.
C11_OneUploadOfTheBytes ==
    LET ref == resolved.reference IN
    /\ Len(uploads) <= 1
    /\ (resolved.ok /\ Truthy(ref.imageToken)) => uploads = <<>>
    /\ ( /\ rpc \in {"uploading", "done"}
         /\ resolved.ok /\ ~Truthy(ref.imageToken)
         /\ eopts.uploadIfNeeded = "true"
         /\ BytesAtHand # <<>> )
       => /\ Len(uploads) = 1
          /\ Base64Decode(uploads[1].image_base64) = BytesAtHand
          /\ result.kind = "return"
             => /\ Len(uploadReplies) = 1
                /\ result.imageToken = uploadReplies[1].image_token
    /\ ( /\ rpc = "done"
         /\ resolved.ok /\ ~Truthy(ref.imageToken)
         /\ eopts.uploadIfNeeded = "true"
         /\ BytesAtHand = <<>> )
       => /\ uploads = <<>>
          /\ result.kind = "throw"
          /\ result.error.code = "InvalidRequest"

C11_Witness ==
    /\ rpc = "done"
    /\ resolved.ok
    /\ resolved.reference.source = "resource_uri"
    /\ ~Truthy(resolved.reference.imageToken)
    /\ Len(uploads) = 1
    /\ uploads[1].image_base64 = <<"QUJD">>
    /\ result.kind = "return"
    /\ result.imageToken = Lit("tok-up")

\* C12: no step of resolveImageReference or ensureImageToken changes the
\* metadata list or the image files, and an invocation by image_token that
\* is repeated against the unchanged store resolves to the same reference
\* and ends with the same result as the first time.
C12_NoStoreWriteAndSameResultTwice ==
    [][ /\ (resolveVars' # resolveVars) => UNCHANGED storeVars
        /\ (first'.done /\ FirstSet(input') = "image_token")
           => /\ (rpc' \in {"resolved", "done"}) => resolved' = first'.resolved
              /\ (rpc' = "done") => result' = first'.result ]_vars

C12_Witness ==
    /\ first.done
    /\ rpc = "done"
    /\ FirstSet(input) = "image_token"
    /\ result.kind = "return"
    /\ result.record # <<>>
    /\ result = first.result
    /\ storeReads = 2

----------------------------------------------------------------------------
(* Properties of the Local Record Store (checked under SpecStore).         *)

\* Tokens a caller may look up
LookupTokens == {<<"tok-a">>, <<"tok-b">>, <<"tok-x">>}

\* The record the most recent completed saveImage returned
LastSaved == history[Len(history)]

\* C15: while no two saves have overlapped, looking up the token of the
\* save that completed last returns a record whose prompt, model,
\* imageToken, downloadUrl and metadata are the saved ones (also when older
\* records carry that token); a token no completed save carried is not found.
C15_SaveThenLookupByToken ==
    /\ (~overlap /\ history # <<>> /\ LastSaved.imageToken.t = "string")
       => LET found == getImageRecordByToken(LastSaved.imageToken.v)
          IN /\ found # <<>>
             /\ found[1].prompt = LastSaved.prompt
             /\ found[1].model = LastSaved.model
             /\ found[1].imageToken = LastSaved.imageToken
             /\ found[1].downloadUrl = LastSaved.downloadUrl
             /\ found[1].metadata = LastSaved.metadata
    /\ \A t \in LookupTokens :
         (\A i \in DOMAIN history : history[i].imageToken # Str(t))
         => getImageRecordByToken(t) = <<>>

C15_Witness ==
    /\ ~overlap
    /\ Len(history) = 2
    /\ history[1].imageToken = Lit("tok-a")
    /\ history[2].imageToken = Lit("tok-a")
    /\ history[1].prompt # history[2].prompt
    /\ getImageRecordByToken(<<"tok-a">>) = <<history[2]>>
    /\ getImageRecordByToken(<<"tok-b">>) = <<>>

\* Both calls read metadata.json before the other one wrote it
Interleaved(p, q) ==
    /\ sv[p].pc = "done" /\ sv[q].pc = "done"
    /\ \A i \in DOMAIN sv[p].records : sv[p].records[i].id # sv[q].record[1].id
    /\ \A i \in DOMAIN sv[q].records : sv[q].records[i].id # sv[p].record[1].id

\* C16: when two saveImage calls have both read metadata.json before
\* either wrote it and both have returned their record, metadata.json holds
\* the record of the call that wrote last in front of what that call had
\* read, and the record of the other call is not in it.
C16_LostUpdate ==
    \A p \in Savers : \A q \in Savers \ {p} :
        (Interleaved(p, q) /\ LastSaved = sv[p].record[1])
        => /\ metadata = writeMetadata(sv[p].record \o sv[p].records)
           /\ \A i \in DOMAIN metadata : metadata[i].id # sv[q].record[1].id
           /\ \E i \in DOMAIN history : history[i] = sv[q].record[1]

C16_Witness ==
    /\ sv[1].pc = "done" /\ sv[2].pc = "done"
    /\ Len(history) = 2
    /\ history[1] = sv[1].record[1]
    /\ history[2] = sv[2].record[1]
    /\ Len(metadata) = 1
    /\ metadata[1].id = sv[2].record[1].id

\* Ids of the records of a list
IdsOf(records) == {records[i].id : i \in DOMAIN records}

\* C17: while no two saves have overlapped, metadata.json is exactly the
\* saved records, newest first, and a step either leaves the list as it is
\* or puts one record with an id not in the list in front of it.
C17_AppendOnly ==
    [][ ~overlap' =>
          /\ \/ metadata' = metadata
             \/ /\ Len(metadata') = Len(metadata) + 1
                /\ Tail(metadata') = metadata
                /\ metadata'[1].id \notin IdsOf(metadata)
          /\ Len(metadata') = Len(history')
          /\ \A i \in DOMAIN history' :
                metadata'[Len(history') + 1 - i] = history'[i] ]_vars

C17_Witness ==
    /\ ~overlap
    /\ Len(history) = 3
    /\ metadata = <<history[3], history[2], history[1]>>
    /\ Cardinality(IdsOf(metadata)) = 3

----------------------------------------------------------------------------
(* Properties of the tool handlers (checked under SpecTools).              *)

\* Positions of the calls of the given operations in the request's events
Positions(ops) == {i \in DOMAIN events : events[i].op \in ops}

TransformOps == {"upscaleImage", "createImageToImageJob", "imageToImage"}

\* Resolution and upload have completed before every transformation or
\* job-submission call, and the job was submitted before every poll
ResolutionThenSubmissionThenPolling ==
    /\ \A i \in Positions(TransformOps) :
         /\ resolved.ok /\ rpc = "done" /\ result.kind = "return"
         /\ Len(uploadReplies) = Len(uploads)
         /\ \A j \in Positions({"uploadImage"}) : j < i
    /\ \A i \in Positions({"getJobResult"}) :
         /\ Truthy(plan.jobId)
         /\ \E j \in Positions({"upscaleImage", "createImageToImageJob"}) : j < i

SentToUpscale == events[CHOOSE i \in Positions({"upscaleImage"}) : TRUE]

\* The scale the caller asked for, 2 when none was given
RequestedScale == IF params.scale.t = "undefined" THEN 2 ELSE params.scale.n

\* C14: after a successful upscale_image the saved record's metadata has
\* upscaled_from equal to the token sent to the upscale endpoint and
\* upscale_scale equal to the requested scale (2 when none was given),
\* whatever metadata the remote job returned, and the response reports the
\* same scale.
C14_UpscaleMetadata ==
    (tool = "upscale_image" /\ response.kind = "result")
    => /\ Len(metadata) = Len(before) + 1
       /\ Get(metadata[1].metadata, "upscaled_from") = SentToUpscale.image_token
       /\ Get(metadata[1].metadata, "upscale_scale") = NumValue(RequestedScale)
       /\ response.payload.scale = Num(RequestedScale)
       /\ params.scale.t # "undefined" => SentToUpscale.scale = params.scale

C14_Witness ==
    /\ tool = "upscale_image"
    /\ response.kind = "result"
    /\ params.scale = NoNumber
    /\ plan.remote.metadata = RemoteMetadata
    /\ Get(metadata[1].metadata, "upscaled_from") = Lit("tok-a")
    /\ Get(metadata[1].metadata, "upscale_scale") = NumValue(2)
    /\ Get(metadata[1].metadata, "width") = NumValue(64)

\* The request is one that saves an image when it succeeds
SavingRequest ==
    \/ tool \in {"generate_image", "upscale_image"}
    \/ tool = "image_to_image" /\ plan.asyncMode = "false"

\* C18: a generate_image, upscale_image or synchronous image_to_image
\* request that ended with a success response has added exactly one record,
\* and that record and the response carry a non-empty image token; a
\* request that ended with an error has added no record.
C18_NoPartialSuccess ==
    (tpc = "done" /\ SavingRequest)
    => /\ response.kind = "result"
          => /\ Len(metadata) = Len(before) + 1
             /\ Tail(metadata) = before
             /\ Truthy(sanitizeOptionalString(metadata[1].imageToken))
             /\ Truthy(sanitizeOptionalString(response.payload.image_token))
       /\ response.kind = "throw" => metadata = before

KnownTools == {"upscale_image", "image_to_image", "generate_image"}

\* C19: a McpError thrown by a handler (from validation, resolution,
\* ensureImageToken or polling) is what the caller receives, code and
\* message unchanged; an Error is received as one InternalError whose
\* message is 'Tool execution failed: ' followed by the Error's message; an
\* unknown tool name is answered with MethodNotFound.
C19_ErrorsAtTheToolBoundary ==
    /\ response.kind = "throw"
       => /\ raised.code # "Error" => response.error = raised
          /\ raised.code = "Error"
             => response.error = McpError("InternalError",
                                          <<"Tool execution failed: ">> \o raised.message)
    /\ (tpc = "done" /\ tool \in {"upscale_image", "image_to_image"} /\ rpc = "done"
        /\ ~resolved.ok)
       => response.error = resolved.error /\ response.error.code = "InvalidRequest"
    /\ (tpc = "done" /\ result.kind = "throw" /\ resolved.ok)
       => IF result.error.code = "Error"
          THEN /\ response.error.code = "InternalError"
               /\ response.error.message = <<"Tool execution failed: ">> \o result.error.message
          ELSE response.error = result.error
    /\ (tpc = "done" /\ outcome.kind = "throw") => response.error = outcome.error
    /\ (tpc = "done" /\ tool \notin KnownTools)
       => response.error = McpError("MethodNotFound", <<"Unknown tool: ", tool>>)

C19_Witness ==
    /\ tpc = "done"
    /\ tool = "upscale_image"
    /\ params.scale = Num(9)
    /\ resolved.ok
    /\ raised = McpError("InvalidRequest", <<"scale", " must not exceed ", "8", ".">>)
    /\ response.kind = "throw"
    /\ response.error = raised

\* A request about the remote job
IsJobRequest(e) == e.op \in {"upscaleImage", "getJobResult"}

\* The job has failed or waitForJobResult has timed out
JobFailedOrTimedOut ==
    \/ outcome.kind = "throw"
    \/ \E k \in DOMAIN log : EntryStatus(log[k]) \in FailureWords

\* C20: an upscale_image request calls upscaleImage at most once, and once
\* the job has answered failed, error or cancelled, or polling has timed
\* out, the request sends nothing more about that job.
C20_SubmittedOnceThenLeftAlone ==
    [][ tool' = "upscale_image" =>
          /\ Cardinality({i \in DOMAIN events' : events'[i].op = "upscaleImage"}) <= 1
          /\ JobFailedOrTimedOut
             => SelectSeq(events', IsJobRequest) = SelectSeq(events, IsJobRequest) ]_vars

\* C21: an image_to_image request with async = true that ends with a
\* success response has created the job, polled its result at least once
\* and saved the result as one new record before it responded.
C21_AsyncPollsAndSaves ==
    (tpc = "done" /\ tool = "image_to_image" /\ plan.asyncMode = "true"
     /\ response.kind = "result")
    => /\ Positions({"createImageToImageJob"}) # {}
       /\ Positions({"getJobResult"}) # {}
       /\ Positions({"saveImage"}) # {}
       /\ Len(metadata) = Len(before) + 1

\* A poll setting the handler must reject: not an integer or out of [lo, hi]
BadPollSetting(value, lo, hi) ==
    \/ value.t \in {"fraction", "text"}
    \/ value.t = "number" /\ (value.n < lo \/ value.n > hi)

\* The value waitForJobResult must receive for an accepted poll setting
PollSetting(value, fallback) ==
    IF value.t \in {"undefined", "empty"} THEN Num(fallback) ELSE Num(value.n)

\* C22: when upscale_image calls waitForJobResult, pollIntervalSeconds is
\* the given poll_interval_seconds, within [1,60], or 5 when none was given,
\* and timeoutSeconds is the given poll_timeout_seconds, within [1,1800], or
\* 300; a poll setting out of range or not an integer ends the request with
\* InvalidRequest and without any remote call.
C22_PollSettings ==
    tool = "upscale_image" =>
      /\ wpc # "idle"
         => /\ wopts.pollIntervalSeconds = PollSetting(params.poll_interval_seconds, 5)
            /\ wopts.timeoutSeconds = PollSetting(params.poll_timeout_seconds, 300)
            /\ wopts.pollIntervalSeconds.n \in 1..60
            /\ wopts.timeoutSeconds.n \in 1..1800
            /\ PollIntervalMs(wopts) = wopts.pollIntervalSeconds.n * 1000
            /\ deadline = TimeoutMs(wopts)
            /\ TimeoutMs(wopts) = wopts.timeoutSeconds.n * 1000
      /\ ( \/ BadPollSetting(params.poll_interval_seconds, 1, 60)
           \/ BadPollSetting(params.poll_timeout_seconds, 1, 1800) )
         => /\ tpc = "done"
            /\ response.kind = "throw"
            /\ response.error.code = "InvalidRequest"
            /\ events = <<>> /\ uploads = <<>> /\ calls = 0

C22_Witness ==
    /\ tool = "upscale_image"
    /\ params.poll_interval_seconds = Num(61)
    /\ params.poll_timeout_seconds = Num(1800)
    /\ params.scale = Num(4)
    /\ params.image_base64 = Lit("QUJD")
    /\ response.error = McpError("InvalidRequest",
                                 <<"poll_interval_seconds", " must not exceed ", "60", ".">>)
    /\ events = <<>>

----------------------------------------------------------------------------
(* Properties of the byte reads (checked under SpecCaption).               *)

\* The reference is a resource handle whose record has no token and whose
\* image file gives no bytes
NoTokenNoBytes ==
    /\ resolved.ok
    /\ resolved.reference.source = "resource_uri"
    /\ ~Truthy(resolved.reference.imageToken)
    /\ BytesAtHand = <<>>

\* C23: resolveImageReference never reads an image file: it succeeds for a
\* resource handle whose record has no token and no readable bytes; the
\* InvalidRequest comes later, with the one file read of ensureImageToken
\* (uploadIfNeeded = true) or of the caption handler.
C23_LazyBytes ==
    /\ rpc = "resolved" => (resolved.ok /\ fileReads = 0)
    /\ (rpc = "done" /\ ~resolved.ok) => fileReads = 0
    /\ (NoTokenNoBytes /\ rpc = "done" /\ eopts.uploadIfNeeded = "true")
       => /\ result.kind = "throw" /\ result.error.code = "InvalidRequest"
          /\ fileReads = 1 /\ uploads = <<>>
    /\ (NoTokenNoBytes /\ rpc = "captioned")
       => /\ result.kind = "throw" /\ result.error.code = "InvalidRequest"
          /\ fileReads = 1

C23_Witness ==
    /\ NoTokenNoBytes
    /\ rpc = "captioned"
    /\ resolved.reference.record # <<>>
    /\ resolved.reference.record[1].filename \notin DOMAIN files
    /\ fileReads = 1
    /\ result.kind = "throw"

----------------------------------------------------------------------------
(* Properties of the reading requests (checked under SpecRead).            *)

\* The records the requested resource URI names (none when it names none)
RequestedRecords ==
    LET ext == extractResourceId(params.resource_uri.v) IN
    {i \in DOMAIN metadata : ext.ok /\ metadata[i].id = ext.id}

\* The image file of the record holds at least one byte
HasBytes(record) ==
    record.filename \in DOMAIN files /\ files[record.filename] # <<>>

\* C24: reading a resource whose record exists but whose image file is
\* missing or empty fails with the binary-unavailable error, which differs
\* in code and message from the error for a missing record; a successful
\* read always carries a non-empty blob in its image entry.
C24_BinaryUnavailable ==
    (tool = "resources/read" /\ tpc = "done") =>
        /\ \A i \in RequestedRecords :
              ~HasBytes(metadata[i])
              => /\ response.kind = "throw"
                 /\ response.error.code = "InternalError"
                 /\ Includes(response.error.message,
                             <<"Image binary is unavailable. Regenerate the image or configure image_token download handling.">>)
        /\ (extractResourceId(params.resource_uri.v).ok /\ RequestedRecords = {})
           => /\ response.kind = "throw"
              /\ response.error.code = "InvalidRequest"
              /\ response.error.message =
                   <<"Resource not found: ">> \o params.resource_uri.v
        /\ response.kind = "result"
           => Truthy(Get(response.payload[1], "blob"))

C24_Witness ==
    /\ tool = "resources/read" /\ tpc = "done"
    /\ \E i \in RequestedRecords : metadata[i].filename \notin DOMAIN files
    /\ response.kind = "throw"
    /\ response.error.code = "InternalError"

TokenRecords ==
    {i \in DOMAIN metadata :
        /\ params.image_token.t = "string"
        /\ metadata[i].imageToken = Str(Trim(params.image_token.v))}

ResultTime(i) == DateParse(Get(response.payload.results[i], "created_at").v)

\* C28: search_images with before = T returns only records created before
\* T, with after = T only records created after T (a record created at T
\* is in neither), newest first and at most limit of them, limit being
\* within 1..20 and 5 when none was given.
C28_SearchWindow ==
    (tool = "search_images" /\ tpc = "done" /\ response.kind = "result") =>
        LET results == response.payload.results IN
        /\ Truthy(params.before)
           => \A i \in DOMAIN results : ResultTime(i) < DateParse(params.before.v)
        /\ Truthy(params.after)
           => \A i \in DOMAIN results : ResultTime(i) > DateParse(params.after.v)
        /\ \A i, j \in DOMAIN results : i < j => ResultTime(i) >= ResultTime(j)
        /\ Len(results) <= (IF params.limit.t = "undefined" THEN 5 ELSE params.limit.n)
        /\ Len(results) <= 20

----------------------------------------------------------------------------
(* Properties of store_image_from_url (checked under SpecImport)           *)

\* The handler went on without a token of the store-from-url endpoint and
\* downloaded the URL itself
FallbackCase ==
    /\ tool = "store_image_from_url"
    /\ "downloaded" \in DOMAIN plan
    /\ plan.downloaded # <<>>
    /\ ~Truthy(plan.storeToken)

\* The token the fallback upload answered with
FallbackToken == sanitizeOptionalString(uploadReplies[1].image_token)

\* C27: store_image_from_url, when the store-from-url call failed or gave
\* no token and the URL was downloaded, uploads the downloaded bytes with
\* exactly one uploadImage call and, once that upload has answered with a
\* token, saves the record under that token and reports
\* fallback_upload_used = true; fallback_upload_used is reported and stored
\* only when the fallback upload was performed, and a URL of another scheme
\* than http/https fails with InvalidRequest before any remote call.
C27_FallbackUpload ==
    (tool = "store_image_from_url") =>
        /\ Len(uploads) <= 1
        /\ FallbackCase
           => /\ Len(uploads) = 1
              /\ uploads[1].image_base64 = plan.downloaded[1].base64
              /\ (uploadReplies # <<>> /\ Truthy(FallbackToken))
                 => /\ response.kind = "result"
                    /\ metadata # before
                    /\ metadata[1].imageToken = FallbackToken
                    /\ Get(response.payload, "image_token") = FallbackToken
                    /\ Get(response.payload, "fallback_upload_used") = Bool("true")
                    /\ Get(metadata[1].metadata, "fallback_upload_used") = Bool("true")
        /\ (tpc = "done" /\ response.kind = "result")
           => /\ (Get(response.payload, "fallback_upload_used") # Undefined
                    => Len(uploads) = 1)
              /\ (Get(metadata[1].metadata, "fallback_upload_used") # Undefined
                    => Len(uploads) = 1)
        /\ (tpc = "done" /\ Truthy(sanitizeOptionalString(params.image_url))
              /\ ParseUrl(Trim(params.image_url.v)).ok
              /\ ParseUrl(Trim(params.image_url.v)).protocol \notin {"http:", "https:"})
           => /\ response.kind = "throw"
              /\ response.error.code = "InvalidRequest"
              /\ events = <<>>

----------------------------------------------------------------------------
(* Order of validation and remote calls (checked under SpecTools)          *)

\* C29: an invocation of upscale_image or image_to_image that fails with
\* InvalidRequest because of an invalid argument has issued no remote call:
\* inline bytes are not uploaded before a later argument is rejected.
C29_ValidateBeforeRemote ==
    (/\ tool \in {"upscale_image", "image_to_image"}
     /\ tpc = "done"
     /\ response.kind = "throw"
     /\ raised.code = "InvalidRequest")
        => events = <<>> /\ uploads = <<>>

----------------------------------------------------------------------------
(* Termination of waitForJobResult (checked under SpecWait)                *)

\* Math.ceil(a / b) for positive integers
Ceil(a, b) == (a + b - 1) \div b

\* timeoutSeconds and pollIntervalSeconds of the call, with their defaults
TimeoutSeconds == OrElse(wopts.timeoutSeconds, 300)

IntervalSeconds == OrElse(wopts.pollIntervalSeconds, 5)

\* The call ended by reporting the timeout
TimedOut == wpc = "done" /\ outcome.kind = "throw"

\* The steps of the loop: the deadline is start + timeoutSeconds, a poll
\* starts only before the deadline, a poll that does not end the call is
\* followed by a sleep, and a sleep lasts pollIntervalSeconds at least
LoopStep ==
    /\ (wpc = "idle" /\ wpc' = "loop") => deadline' = now + TimeoutSeconds' * 1000
    /\ calls' # calls => (calls' = calls + 1 /\ now < deadline)
    /\ (wpc = "polling" /\ wpc' # "polling")
         => \/ wpc' = "done" /\ outcome'.kind = "return" /\ sleeps' = sleeps
            \/ wpc' = "sleeping" /\ sleeps' = sleeps + 1
    /\ (wpc = "sleeping" /\ wpc' # "sleeping")
         => wpc' = "loop" /\ now' >= now + IntervalSeconds * 1000

\* The polls of a call that reports the timeout
PollCount ==
    /\ wpc = "polling" => now < deadline
    /\ TimedOut => /\ outcome.error = TimeoutError(jobId, wopts, lastStatus)
                   /\ now >= deadline
                   /\ 1 <= calls
                   /\ calls <= Ceil(TimeoutSeconds, IntervalSeconds)
                   /\ sleeps = calls

\* The calls whose polls the model follows to the end
WithinMaxPolls == Ceil(TimeoutSeconds, IntervalSeconds) <= MaxPolls

\* C30: waitForJobResult terminates when every remote call returns or
\* throws; it never starts a poll at or after the deadline (start +
\* timeoutSeconds), it sleeps pollIntervalSeconds after every poll that
\* does not end the call, and it reports the timeout after at least 1 and
\* at most ceil(timeoutSeconds / pollIntervalSeconds) polls (exactly that
\* many when the remote calls are instantaneous and the timers punctual).
C30_WaitTerminates ==
    /\ [][LoopStep]_vars
    /\ []PollCount
    /\ []((wpc # "idle" /\ WithinMaxPolls) => <>(wpc = "done"))
    /\ []((TimedOut /\ now = sleeps * IntervalSeconds * 1000)
            => calls = Ceil(TimeoutSeconds, IntervalSeconds))

C30_Witness ==
    /\ TimedOut
    /\ wopts.timeoutSeconds = Num(2) /\ wopts.pollIntervalSeconds = Num(1)
    /\ calls = 2 /\ sleeps = 2
    /\ now = deadline
====
